---- MODULE Spec2Model ----
(***************************************************************************)
(* kubectl-setimg: the rollout supervisor (cmd: Complete, RunWithPatch,    *)
(* watchPodsAndRollbackIfNeeded, rollbackDeployment), the readiness        *)
(* watcher of pkg/k8s (WatchDeployment, CheckDeploymentReadiness) and      *)
(* package registry: the client that dispatches an image to a provider,    *)
(* the providers' ListTagsWithInfo and getTagsWithCreationTime.            *)
(*                                                                         *)
(* A Go string is modelled as a sequence of tokens: the token "=" is the   *)
(* separator that Complete splits on, every other token is a run of        *)
(* characters without "=".  The empty string is the empty sequence.        *)
(* Image references and tag names have their own tokens, given with them.  *)
(***************************************************************************)
EXTENDS Integers, Sequences, FiniteSets, Bags, TLC

VARIABLES
    pc,             \* position of the command: Complete, Run, RunWithPatch, ...
    args,           \* positional command-line arguments
    listOnly,       \* flag --list
    watchMode,      \* flag --watch
    watchTimeout,   \* flag --timeout, in seconds
    deployment,     \* SetImageOptions.deployment
    container,      \* SetImageOptions.container
    image,          \* SetImageOptions.image
    previousImage,  \* SetImageOptions.previousImage
    shownImage,     \* selectedContainer.Image of runInteractiveMode
    others,         \* the positions of the command at which another client
                    \* of the API server has changed the container's image
    interactive,    \* shouldUseInteractive as computed by Complete
    result,         \* the error value the command returns ("pending" while running)
    cluster,        \* containers of the deployment in the cluster: <<[Name, Image]>>
    calls,          \* the external calls issued so far, in order
    wpc,            \* position inside WatchDeployment
    clock,          \* seconds since WatchDeployment created its timers
    timeoutFired,   \* timeoutCh holds a value
    tickPending,    \* ticker.C holds a value (buffer of one)
    checks,         \* number of CheckDeploymentReadiness calls started
    checksAfterTimeout, \* those started when timeoutCh already held a value
    lastObs,        \* what the last completed readiness check read from the API
    lastCheck,      \* what the last completed readiness check returned
    watchErr,       \* the error WatchDeployment returned
    tagFetch,       \* err of the tag listing, while runInteractiveMode returns
    providers,      \* registry Client.providers, by provider name
    lastCall,       \* the last listing call on the registry client
    listing,        \* the last ListTagsWithInfo of a provider: answers and result
    epc,            \* position of getTagsWithCreationTime
    nTags,          \* len(tags) of its call
    launched,       \* goroutines started so far
    pool,           \* the goroutines, as a bag of positions
    sem,            \* values held by the channel sem
    results,        \* values held by the channel results
    errors,         \* values held by the channel errors
    collected,      \* i of the collecting loop
    tagInfos,       \* len(tagInfos) of the collecting loop
    enrichErr       \* the error getTagsWithCreationTime returned

vars == <<pc, args, listOnly, watchMode, watchTimeout, deployment, container,
          image, previousImage, shownImage,
                   others, interactive, result, cluster, calls,
          wpc, clock, timeoutFired, tickPending, checks, checksAfterTimeout,
          lastObs, lastCheck, watchErr, tagFetch, providers, lastCall,
          listing, epc, nTags, launched, pool, sem, results, errors,
          collected, tagInfos, enrichErr>>

cmdVars == <<pc, args, listOnly, watchMode, deployment, container,
             image, previousImage, shownImage,
                   others, interactive, result, cluster, calls,
             tagFetch>>

watchVars == <<wpc, clock, timeoutFired, tickPending, checks,
               checksAfterTimeout, lastObs, lastCheck, watchErr>>

\* the registry client
regVars == <<providers, lastCall>>

\* the state of package registry
\* getTagsWithCreationTime
enrichVars == <<epc, nTags, launched, pool, sem, results, errors, collected,
                tagInfos, enrichErr>>

libVars == <<regVars, listing, enrichVars>>

\* the state of the command and of the watcher
appVars == <<cmdVars, watchTimeout, watchVars>>

\* what the operations of the registry client leave alone
regFrame == <<appVars, listing, enrichVars>>

\* what the listing of a provider leaves alone
listFrame == <<appVars, regVars, enrichVars>>

\* what the steps of getTagsWithCreationTime leave alone
enrichFrame == <<appVars, regVars, listing>>

----------------------------------------------------------------------------
(* Bounds of the model *)

MaxReplicas == 3        \* replica counts range over 0..MaxReplicas
MaxPods == 2            \* pods returned by one List call
MaxContainers == 1      \* container statuses per pod
MaxRunPods == 1         \* pods per List call in the runs of the whole command
MaxAdded == 2            \* providers added to a registry client by AddProvider
MaxTags == 22            \* tags of a repository
MaxDetails == 102        \* image details of an ECR repository with more than the cap
MaxLongTags == 52        \* tags of a repository with more tags than are looked up
MaxEnrichTags == 12      \* tags given to getTagsWithCreationTime
MaxClock == 15          \* the timers are followed up to this second

(* Program constants *)

TickInterval == 5       \* time.NewTicker(5 * time.Second)
RestartLimit == 3       \* containerStatus.RestartCount > 3
TagLimit == 20          \* tagInfos[:20]
EnrichLimit == 50       \* tags[:50]
MaxResults == 100        \* MaxResults of DescribeImagesInput: details per page
ECRLimit == 100         \* len(allImageDetails) >= 100
MaxConcurrent == 10     \* maxConcurrent := 10

----------------------------------------------------------------------------
(* Strings *)

EmptyStr == <<>>
Sep == "="

DeploymentName == <<"web">>
ContainerName == <<"app">>
ClusterImages == {<<"app:v1">>, <<"app:v3">>}
\* the image of a container as a server may answer it: Image is an
\* optional field of the API's Container, absent it is the empty string
DeployedImages == ClusterImages \cup {EmptyStr}
SelectableImages == {<<"app:v2">>, <<"app:v3">>}

\* strings.Split(s, "=")
RECURSIVE SplitRec(_, _, _)
SplitRec(s, cur, acc) ==
    IF s = <<>> THEN Append(acc, cur)
    ELSE IF Head(s) = Sep THEN SplitRec(Tail(s), <<>>, Append(acc, cur))
    ELSE SplitRec(Tail(s), Append(cur, Head(s)), acc)

Split(s) == SplitRec(s, <<>>, <<>>)

ArgLists ==
    { <<>>,
      <<DeploymentName>>,
      <<DeploymentName, ContainerName>>,
      <<DeploymentName, <<"app", Sep, "app:v2">>>>,
      <<DeploymentName, <<"app", Sep>>>>,
      <<DeploymentName, <<"app", Sep, "app:v2", Sep, "x">>>>,
      <<EmptyStr, <<"app", Sep, "app:v2">>>> }

Timeouts == {3, 7, 10}

----------------------------------------------------------------------------
(* The cluster as the API server presents it *)

\* Deployments(ns).Get(name): the deployment exists and the call succeeds
DeploymentFound(name, apiOk) == apiOk /\ name = DeploymentName

\* the loop of GetCurrentImage over deployment.Spec.Template.Spec.Containers
RECURSIVE FindImage(_, _)
FindImage(cs, name) ==
    IF cs = <<>> THEN [found |-> FALSE, Image |-> EmptyStr]
    ELSE IF Head(cs).Name = name THEN [found |-> TRUE, Image |-> Head(cs).Image]
    ELSE FindImage(Tail(cs), name)

GetCurrentImage(dep, con, apiOk) ==
    IF ~DeploymentFound(dep, apiOk)
    THEN [err |-> "failed to get deployment", Image |-> EmptyStr]
    ELSE LET f == FindImage(cluster, con) IN
         IF f.found THEN [err |-> "nil", Image |-> f.Image]
         ELSE [err |-> "container not found", Image |-> EmptyStr]

\* the strategic merge patch of UpdateContainerImage, applied by the API
\* server: the container of that name gets the image (the command patches
\* only a container that GetCurrentImage has found)
PatchedCluster(cs, con, img) ==
    [i \in 1..Len(cs) |->
        IF cs[i].Name = con THEN [cs[i] EXCEPT !.Image = img] ELSE cs[i]]

----------------------------------------------------------------------------
(* Complete *)

ShouldUseInteractive(a, list) ==
    IF list THEN FALSE
    ELSE IF Len(a) < 1 THEN TRUE
    ELSE IF Len(a) < 2 THEN TRUE
    ELSE LET parts == Split(a[2]) IN
         Len(parts) # 2 \/ parts[1] = EmptyStr \/ parts[2] = EmptyStr

\* leave the command with the error e ("nil" for success)
Return(e) == pc' = "done" /\ result' = e

\* the errors o.registry.ListTagsWithInfo returns to runInteractiveMode
TagFetchErrors == {"nil", "no provider found for image", "failed to list tags"}

TagsFetchedAlways(fetch) == TRUE

\* err == nil after o.registry.ListTagsWithInfo
TagsFetched(fetch) == fetch = "nil"

\* runInteractiveMode, entered with the deployment and container taken
\* from the arguments (dep0, con0; empty when not given)

runInteractiveMode(dep0, con0) ==
    \E listOk \in BOOLEAN, apiOk \in BOOLEAN, fetch \in TagFetchErrors,
       depChoice \in {DeploymentName, EmptyStr},
       conChoice \in {cluster[i].Name : i \in 1..Len(cluster)} \cup {EmptyStr},
       imgChoice \in SelectableImages \cup ClusterImages \cup {EmptyStr} :
        LET tagsOk == TagsFetched(fetch)
            dep == IF dep0 = EmptyStr THEN depChoice ELSE dep0
            cur == GetCurrentImage(dep, IF con0 = EmptyStr THEN conChoice ELSE con0, apiOk)
            offered == IF tagsOk THEN SelectableImages \cup {cur.Image}
                       ELSE SelectableImages \cup ClusterImages
        IN
        /\ imgChoice \in offered \cup {EmptyStr}
        /\ IF dep0 = EmptyStr /\ (~listOk \/ depChoice = EmptyStr)
           THEN /\ Return("failed to select deployment")
                /\ UNCHANGED <<deployment, container, image, tagFetch, shownImage>>
           ELSE IF con0 = EmptyStr /\ ~DeploymentFound(dep, apiOk)
           THEN /\ Return("failed to get deployment")
                /\ deployment' = dep
                /\ UNCHANGED <<container, image, tagFetch, shownImage>>
           ELSE IF con0 = EmptyStr /\ conChoice = EmptyStr
           THEN /\ Return("failed to select container")
                /\ deployment' = dep
                /\ UNCHANGED <<container, image, tagFetch, shownImage>>
           ELSE IF con0 # EmptyStr /\ cur.err # "nil"
           THEN /\ Return("container not found in deployment")
                /\ deployment' = dep
                /\ container' = con0
                /\ UNCHANGED <<image, tagFetch, shownImage>>
           ELSE IF imgChoice = EmptyStr
           THEN /\ Return(IF tagsOk THEN "failed to select image tag"
                          ELSE "failed to input image")
                /\ deployment' = dep
                /\ container' = (IF con0 = EmptyStr THEN conChoice ELSE con0)
                /\ image' = EmptyStr
                /\ tagFetch' = fetch
                /\ shownImage' = cur.Image
           ELSE /\ pc' = "run"
                /\ result' = "pending"
                /\ deployment' = dep
                /\ container' = (IF con0 = EmptyStr THEN conChoice ELSE con0)
                /\ image' = imgChoice
                /\ tagFetch' = fetch
                /\ shownImage' = cur.Image

Complete ==
    /\ pc = "complete"
    /\ interactive' = ShouldUseInteractive(args, listOnly)
    /\ \E clientOk \in BOOLEAN :
        IF ~clientOk
        THEN /\ Return("failed to create client")
             /\ UNCHANGED <<deployment, container, image, tagFetch, shownImage>>
        ELSE IF ShouldUseInteractive(args, listOnly)
        THEN runInteractiveMode(IF Len(args) >= 1 THEN args[1] ELSE EmptyStr,
                                IF Len(args) >= 2 THEN args[2] ELSE EmptyStr)
        ELSE IF listOnly
        THEN IF Len(args) < 1
             THEN /\ Return("deployment name is required for --list mode")
                  /\ UNCHANGED <<deployment, container, image, tagFetch, shownImage>>
             ELSE /\ pc' = "run"
                  /\ result' = "pending"
                  /\ deployment' = args[1]
                  /\ UNCHANGED <<container, image, tagFetch, shownImage>>
        ELSE IF Len(args) < 1
        THEN /\ Return("deployment name is required")
             /\ UNCHANGED <<deployment, container, image, tagFetch, shownImage>>
        ELSE IF Len(args) < 2
        THEN /\ Return("container=image is required for direct mode")
             /\ deployment' = args[1]
             /\ UNCHANGED <<container, image, tagFetch, shownImage>>
        ELSE IF Len(Split(args[2])) # 2
        THEN /\ Return("container=image format required for direct mode")
             /\ deployment' = args[1]
             /\ UNCHANGED <<container, image, tagFetch, shownImage>>
        ELSE /\ pc' = "run"
             /\ result' = "pending"
             /\ deployment' = args[1]
             /\ container' = Split(args[2])[1]
             /\ image' = Split(args[2])[2]
             /\ UNCHANGED <<tagFetch, shownImage>>
    /\ UNCHANGED <<args, listOnly, watchMode, watchTimeout, previousImage,
                   others, cluster, calls>>
    /\ UNCHANGED libVars
    /\ UNCHANGED watchVars

----------------------------------------------------------------------------
(* CheckDeploymentReadiness *)

NoObs == [getOk |-> FALSE, Replicas |-> 0, ReadyReplicas |-> 0,
          UpdatedReplicas |-> 0, listOk |-> FALSE, pods |-> <<>>, none |-> TRUE]
NoCheck == [ready |-> FALSE, err |-> "none", listed |-> FALSE]

BadWaitingReasons == {"ImagePullBackOff", "CrashLoopBackOff", "ErrImagePull"}

\* deployment.Status.ReadyReplicas == *deployment.Spec.Replicas &&
\* deployment.Status.UpdatedReplicas == *deployment.Spec.Replicas
ReplicasReadyOnReadyAlone(o) == o.ReadyReplicas = o.Replicas

ReplicasReady(o) ==
    o.ReadyReplicas = o.Replicas /\ o.UpdatedReplicas = o.Replicas

RestartingTooFrequentlyAtLimit(s) == s.RestartCount >= RestartLimit

RestartingTooFrequently(s) == s.RestartCount > RestartLimit

\* Waiting "nil" is a State.Waiting that is nil
HasWaitingProblem(s) ==
    s.Waiting # "nil" /\ s.Waiting \in BadWaitingReasons

RECURSIVE CheckContainerStatuses(_)
CheckContainerStatuses(cs) ==
    IF cs = <<>> THEN "nil"
    ELSE IF RestartingTooFrequently(Head(cs)) THEN "restarting too frequently"
    ELSE IF HasWaitingProblem(Head(cs)) THEN "has problem"
    ELSE CheckContainerStatuses(Tail(cs))

RECURSIVE CheckPods(_)
CheckPods(pods) ==
    IF pods = <<>> THEN "nil"
    ELSE IF Head(pods).Phase = "Failed" THEN "pod failed"
    ELSE LET e == CheckContainerStatuses(Head(pods).ContainerStatuses) IN
         IF e # "nil" THEN e ELSE CheckPods(Tail(pods))

CheckDeploymentReadinessPodsFirst(o) ==
    IF ~o.getOk THEN [ready |-> FALSE, err |-> "get deployment", listed |-> FALSE]
    ELSE IF ~o.listOk THEN [ready |-> FALSE, err |-> "list pods", listed |-> TRUE]
    ELSE IF CheckPods(o.pods) # "nil"
    THEN [ready |-> FALSE, err |-> CheckPods(o.pods), listed |-> TRUE]
    ELSE [ready |-> ReplicasReady(o), err |-> "nil", listed |-> TRUE]

\* o is what the API server answers: the deployment (or an error) and, when
\* asked, the pods selected by app=<deployment> (or an error); listed tells
\* whether the pods were asked for
CheckDeploymentReadiness(o) ==
    IF ~o.getOk THEN [ready |-> FALSE, err |-> "get deployment", listed |-> FALSE]
    ELSE IF ReplicasReady(o) THEN [ready |-> TRUE, err |-> "nil", listed |-> FALSE]
    ELSE IF ~o.listOk THEN [ready |-> FALSE, err |-> "list pods", listed |-> TRUE]
    ELSE [ready |-> FALSE, err |-> CheckPods(o.pods), listed |-> TRUE]

(* The answers of the API server that the model draws from *)

ReplicaCounts == 0..MaxReplicas
Phases == {"Running", "Failed"}
HealthyStatus == [RestartCount |-> RestartLimit, Waiting |-> "ContainerCreating"]
OtherStatuses ==
    {[RestartCount |-> RestartLimit + 1, Waiting |-> "ContainerCreating"],
     [RestartCount |-> 0, Waiting |-> "nil"],
     [RestartCount |-> RestartLimit, Waiting |-> "nil"]}
    \cup {[RestartCount |-> RestartLimit, Waiting |-> w] : w \in BadWaitingReasons}

\* the running pods with n[i] healthy container statuses in pod i
HealthyPods(n) ==
    [i \in 1..Len(n) |->
        [Phase |-> "Running",
         ContainerStatuses |-> [j \in 1..n[i] |-> HealthyStatus]]]

PodShapes == UNION {[1..k -> 0..MaxContainers] : k \in 0..MaxPods}

\* pod lists in which at most one pod or one container status is not the
\* healthy one
PodLists ==
    UNION {
        {HealthyPods(n)}
        \cup {[HealthyPods(n) EXCEPT ![i].Phase = "Failed"] : i \in 1..Len(n)}
        \cup UNION {
               {[HealthyPods(n) EXCEPT ![ij[1]].ContainerStatuses[ij[2]] = s] :
                    s \in OtherStatuses}
               : ij \in {x \in (1..Len(n)) \X (1..MaxContainers) : x[2] <= n[x[1]]}}
        : n \in PodShapes}

Obs(getOk, d, r, u, listOk, pods) ==
    [getOk |-> getOk, Replicas |-> d, ReadyReplicas |-> r, UpdatedReplicas |-> u,
     listOk |-> listOk, pods |-> pods, none |-> FALSE]

Observations ==
    {Obs(FALSE, 0, 0, 0, FALSE, <<>>)}
    \cup {Obs(TRUE, d, r, u, TRUE, <<>>) :
            d \in ReplicaCounts, r \in ReplicaCounts, u \in ReplicaCounts}
    \cup {Obs(TRUE, MaxReplicas, MaxReplicas, u, ok, <<>>) :
            u \in {MaxReplicas - 1, MaxReplicas}, ok \in {FALSE}}
    \cup {Obs(TRUE, MaxReplicas, MaxReplicas, u, TRUE, p) :
            u \in {MaxReplicas - 1, MaxReplicas}, p \in PodLists}

----------------------------------------------------------------------------
(* WatchDeployment *)

\* timeoutCh := time.After(timeout); ticker := time.NewTicker(5 * time.Second)
WatchEnter(timeout) ==
    /\ wpc' = "select"
    /\ clock' = 0
    /\ timeoutFired' = (timeout <= 0)
    /\ tickPending' = FALSE
    /\ checks' = 0
    /\ checksAfterTimeout' = 0
    /\ lastObs' = NoObs
    /\ lastCheck' = NoCheck
    /\ watchErr' = "none"

NextTickAtOnce ==
    IF clock = 0 /\ checks = 0 THEN 0
    ELSE ((clock \div TickInterval) + 1) * TickInterval

NextTick == ((clock \div TickInterval) + 1) * TickInterval

\* the next instant at which a timer is due
NextEvent ==
    IF clock < watchTimeout /\ watchTimeout < NextTick
    THEN watchTimeout ELSE NextTick

TimeoutDueNever(t) == FALSE

\* time.After(timeout) sends on timeoutCh once the timeout has passed
TimeoutDue(t) == t >= watchTimeout

\* the readiness checks are counted up to this number
MaxChecks == (MaxClock \div TickInterval) + 1

\* The runtime's timers.  Time passes while a readiness check is running,
\* and while the goroutine is parked in the select with no channel ready;
\* a timer that is due puts its value in its channel (the ticker's channel
\* holds one value, a tick that finds it full is dropped).
AdvanceTime ==
    /\ wpc \in {"select", "checking"}
    /\ wpc = "select" => ~timeoutFired /\ ~tickPending
    /\ NextEvent <= MaxClock
    /\ clock' = NextEvent
    /\ timeoutFired' = (timeoutFired \/ TimeoutDue(NextEvent))
    /\ tickPending' = (tickPending \/ NextEvent % TickInterval = 0)
    /\ UNCHANGED <<wpc, checks, checksAfterTimeout, lastObs, lastCheck, watchErr>>
    /\ UNCHANGED <<cmdVars, watchTimeout, libVars>>

\* The ticks later than the timers are followed: while a readiness check is
\* running the ticker puts a value in its channel when that is empty, the
\* clock staying where it is.
LaterTick ==
    /\ wpc = "checking"
    /\ NextEvent > MaxClock
    /\ ~tickPending
    /\ tickPending' = TRUE
    /\ UNCHANGED <<wpc, clock, timeoutFired, checks, checksAfterTimeout,
                   lastObs, lastCheck, watchErr>>
    /\ UNCHANGED <<cmdVars, watchTimeout, libVars>>

\* case <-timeoutCh
SelectTimeout ==
    /\ wpc = "select"
    /\ timeoutFired
    /\ wpc' = "returned"
    /\ watchErr' = "timeout"
    /\ UNCHANGED <<clock, timeoutFired, tickPending, checks, checksAfterTimeout,
                   lastObs, lastCheck>>
    /\ UNCHANGED <<cmdVars, watchTimeout, libVars>>

\* case <-ticker.C: the call of CheckDeploymentReadiness is issued.  When
\* both channels hold a value the select takes either case.
SelectTick ==
    /\ wpc = "select"
    /\ tickPending
    /\ tickPending' = FALSE
    /\ wpc' = "checking"
    /\ checks' = (IF checks < MaxChecks THEN checks + 1 ELSE checks)
    /\ checksAfterTimeout' =
          (IF timeoutFired /\ checksAfterTimeout < MaxChecks
           THEN checksAfterTimeout + 1 ELSE checksAfterTimeout)
    /\ UNCHANGED <<clock, timeoutFired, lastObs, lastCheck, watchErr>>
    /\ UNCHANGED <<cmdVars, watchTimeout, libVars>>

\* what WatchDeployment does with the (ready, err) of a check
AfterCheckPollingOn(r) ==
    IF r.err # "nil" THEN [wpc |-> "returned", watchErr |-> r.err]
    ELSE [wpc |-> "select", watchErr |-> "none"]

AfterCheckRetryingCalls(r) ==
    IF r.err \in {"get deployment", "list pods"}
    THEN [wpc |-> "select", watchErr |-> "none"]
    ELSE IF r.err # "nil" THEN [wpc |-> "returned", watchErr |-> r.err]
    ELSE IF r.ready THEN [wpc |-> "returned", watchErr |-> "nil"]
    ELSE [wpc |-> "select", watchErr |-> "none"]

AfterCheck(r) ==
    IF r.err # "nil" THEN [wpc |-> "returned", watchErr |-> r.err]
    ELSE IF r.ready THEN [wpc |-> "returned", watchErr |-> "nil"]
    ELSE [wpc |-> "select", watchErr |-> "none"]

\* CheckDeploymentReadiness returns, on an answer o of the API server
CheckReturns(O) ==
    /\ wpc = "checking"
    /\ \E o \in O :
        /\ lastObs' = o
        /\ lastCheck' = CheckDeploymentReadiness(o)
        /\ wpc' = AfterCheck(CheckDeploymentReadiness(o)).wpc
        /\ watchErr' = AfterCheck(CheckDeploymentReadiness(o)).watchErr
    /\ UNCHANGED <<clock, timeoutFired, tickPending, checks, checksAfterTimeout>>
    /\ UNCHANGED <<cmdVars, watchTimeout, libVars>>

----------------------------------------------------------------------------
(* Run, RunWithPatch, watchPodsAndRollbackIfNeeded, rollbackDeployment *)

\* an external call, as recorded in calls
Call(op, img, ok, key) ==
    [op |-> op, deployment |-> deployment, container |-> container,
     image |-> img, ok |-> ok, key |-> key]

\* Run in list mode: listContainers
ListContainers ==
    /\ pc = "run"
    /\ listOnly
    /\ \E apiOk \in BOOLEAN :
        Return(IF DeploymentFound(deployment, apiOk) THEN "nil"
               ELSE "failed to get deployment")
    /\ tagFetch' = "nil"      \* the err of runInteractiveMode is out of scope
    /\ UNCHANGED libVars
    /\ UNCHANGED <<args, listOnly, watchMode, watchTimeout, deployment, container,
                   image, previousImage, shownImage,
                   others, interactive, cluster, calls>>
    /\ UNCHANGED watchVars

\* if err := o.savePreviousImage(); err != nil
SaveFailedNever(cur) == FALSE

SaveFailed(cur) == cur.err # "nil"

\* RunWithPatch, first step: savePreviousImage
SavePreviousImage ==
    /\ pc = "run"
    /\ ~listOnly
    /\ \E apiOk \in BOOLEAN :
        LET cur == GetCurrentImage(deployment, container, apiOk) IN
        /\ previousImage' = cur.Image
        /\ calls' = Append(calls, Call("get", cur.Image, cur.err = "nil", ""))
        /\ IF SaveFailed(cur)
           THEN Return(cur.err)
           ELSE pc' = "update" /\ UNCHANGED result
    /\ tagFetch' = "nil"      \* the err of runInteractiveMode is out of scope
    /\ UNCHANGED libVars
    /\ UNCHANGED <<args, listOnly, watchMode, watchTimeout, deployment, container,
                   image, shownImage, others, interactive, cluster>>
    /\ UNCHANGED watchVars

\* if o.watchMode
WatchRequestedAlways == TRUE

WatchRequested == watchMode

PatchFailedNever(patchOk) == FALSE

\* if err != nil after UpdateContainerImage
PatchFailed(patchOk) == ~patchOk

\* RunWithPatch, second step: UpdateContainerImage(deployment, container, image)
\* and, in watch mode, the entry of WatchDeployment
UpdateImage ==
    /\ pc = "update"
    /\ \E patchOk \in BOOLEAN :
        /\ calls' = Append(calls, Call("patch", image, patchOk, ""))
        /\ cluster' = (IF patchOk THEN PatchedCluster(cluster, container, image)
                       ELSE cluster)
        /\ IF PatchFailed(patchOk)
           THEN Return("failed to patch deployment") /\ UNCHANGED watchVars
           ELSE IF WatchRequested
           THEN pc' = "watching" /\ UNCHANGED result /\ WatchEnter(watchTimeout)
           ELSE Return("nil") /\ UNCHANGED watchVars
    /\ UNCHANGED <<tagFetch, libVars>>
    /\ UNCHANGED <<args, listOnly, watchMode, watchTimeout, deployment, container,
                   image, previousImage, shownImage,
                   others, interactive>>

NoPreviousImageNever == FALSE

\* if o.previousImage == ""
NoPreviousImage == previousImage = EmptyStr

\* the condition under which rollbackDeployment shows the confirmation
ShowsConfirmation ==
    deployment # EmptyStr /\ container # EmptyStr /\ image # EmptyStr

\* WatchDeployment has returned to watchPodsAndRollbackIfNeeded; on an error
\* rollbackDeployment runs up to its first blocking call
WatchReturns ==
    /\ pc = "watching"
    /\ wpc = "returned"
    /\ IF watchErr = "nil" THEN Return("nil")
       ELSE IF NoPreviousImage
       THEN Return("no previous image saved for rollback")
       ELSE IF ShowsConfirmation THEN pc' = "confirm" /\ UNCHANGED result
       ELSE pc' = "rollback" /\ UNCHANGED result
    /\ wpc' = "idle"
    /\ clock' = 0
    /\ timeoutFired' = FALSE
    /\ tickPending' = FALSE
    /\ lastObs' = NoObs
    /\ lastCheck' = NoCheck
    /\ UNCHANGED <<checks, checksAfterTimeout, watchErr>>
    /\ UNCHANGED <<tagFetch, libVars>>
    /\ UNCHANGED <<args, listOnly, watchMode, watchTimeout, deployment, container,
                   image, previousImage, shownImage,
                   others, interactive, cluster, calls>>

\* the keys confirmModel.Update ends the dialog on, and a failure of p.Run
ConfirmKeys == {"y", "Y", "n", "N", "q", "ctrl+c", "esc"}
ConfirmEndings == ConfirmKeys \cup {"run error"}

\* confirmModel after Update on a key of ConfirmKeys
ConfirmUpdate(key) ==
    IF key \in {"y", "Y"} THEN [result |-> TRUE, quit |-> FALSE]
    ELSE [result |-> FALSE, quit |-> TRUE]

\* tui.ConfirmRollback
ConfirmRollbackIgnoringQuit(ending) ==
    ending # "run error" /\ ending \notin {"n", "N"}

ConfirmRollback(ending) ==
    IF ending = "run error" THEN FALSE
    ELSE IF ~ConfirmUpdate(ending).quit THEN ConfirmUpdate(ending).result
    ELSE FALSE

\* rollbackDeployment at the confirmation
Confirm ==
    /\ pc = "confirm"
    /\ \E ending \in ConfirmEndings :
        /\ calls' = Append(calls, Call("confirm", previousImage,
                                        ConfirmRollback(ending), ending))
        /\ IF ~ConfirmRollback(ending)
           THEN Return("rollback cancelled")
           ELSE pc' = "rollback" /\ UNCHANGED result
    /\ UNCHANGED <<tagFetch, libVars>>
    /\ UNCHANGED <<args, listOnly, watchMode, watchTimeout, deployment, container,
                   image, previousImage, shownImage,
                   others, interactive, cluster>>
    /\ UNCHANGED watchVars

\* the image rollbackDeployment patches the container to
RollbackImageNew == image

RollbackImageShown == shownImage

RollbackImage == previousImage

\* what rollbackDeployment returns after its patch
RollbackResultNil(patchOk) == "nil"

RollbackResultWatchError(patchOk) ==
    IF patchOk THEN watchErr ELSE "failed to rollback deployment"

RollbackResult(patchOk) ==
    IF patchOk THEN "nil" ELSE "failed to rollback deployment"

\* rollbackDeployment: UpdateContainerImage(deployment, container, previousImage)
Rollback ==
    /\ pc = "rollback"
    /\ \E patchOk \in BOOLEAN :
        /\ calls' = Append(calls, Call("patch", RollbackImage, patchOk, ""))
        /\ cluster' = (IF patchOk
                       THEN PatchedCluster(cluster, container, RollbackImage)
                       ELSE cluster)
        /\ Return(RollbackResult(patchOk))
    /\ UNCHANGED <<tagFetch, libVars>>
    /\ UNCHANGED <<args, listOnly, watchMode, watchTimeout, deployment, container,
                   image, previousImage, shownImage,
                   others, interactive>>
    /\ UNCHANGED watchVars

----------------------------------------------------------------------------
(* Image references                                                        *)
(*                                                                         *)
(* An image reference is a Go string, a sequence of tokens: the            *)
(* separators "/", ":" and "." are tokens of one character, every other    *)
(* token is a run of characters holding none of the three.  "123" is a run *)
(* of digits, "a" a single lowercase letter, "Nginx" a word with an        *)
(* uppercase letter; the other words are lowercase letters, digits, "-".   *)

Slash == "/"
Colon == ":"
Dot == "."

DigitTokens == {"123"}
OneCharTokens == {"a", Slash, Colon, Dot}
UpperTokens == {"Nginx"}

\* strings.Contains(s, sub), for a non-empty sub
Contains(s, sub) ==
    \E i \in 0..(Len(s) - Len(sub)) : SubSeq(s, i + 1, i + Len(sub)) = sub

\* strings.Count(s, tok), for a separator tok
Count(s, tok) == Cardinality({i \in 1..Len(s) : s[i] = tok})

HasPrefix(s, p) == Len(s) >= Len(p) /\ SubSeq(s, 1, Len(p)) = p

Drop(s, n) == SubSeq(s, n + 1, Len(s))

\* length of the longest prefix of s made of tokens of the set T
RunIn(s, T) ==
    CHOOSE n \in 0..Len(s) :
        /\ \A i \in 1..n : s[i] \in T
        /\ (n = Len(s) \/ s[n + 1] \notin T)

\* length of the longest prefix of s without the token t
RunUntil(s, t) ==
    CHOOSE n \in 0..Len(s) :
        /\ \A i \in 1..n : s[i] # t
        /\ (n = Len(s) \/ s[n + 1] = t)

DefaultRegistry == <<"index", Dot, "docker", Dot, "io">>
DefaultRegistryAlias == <<"docker", Dot, "io">>

\* name.NewRepository of go-containerregistry with its default (weak)
\* validation: the part before the first "/" is the registry iff it holds
\* a "." or a ":"; the repository is 2..255 characters of [a-z0-9_-./];
\* no registry means the default one, and docker.io is rewritten to it
NewRepository(s) ==
    LET n == RunUntil(s, Slash)
        first == SubSeq(s, 1, n)
        hasRegistry == n < Len(s) /\ (Contains(first, <<Dot>>) \/ Contains(first, <<Colon>>))
        registry == IF hasRegistry THEN first ELSE EmptyStr
        repo == IF hasRegistry THEN Drop(s, n + 1) ELSE s
        repoOk == /\ \A i \in 1..Len(repo) : repo[i] \notin UpperTokens \cup {Colon}
                  /\ Len(repo) >= 1
                  /\ ~(Len(repo) = 1 /\ repo[1] \in OneCharTokens)
    IN IF s = EmptyStr \/ ~repoOk
       THEN [ok |-> FALSE, registry |-> EmptyStr, repository |-> EmptyStr]
       ELSE [ok |-> TRUE,
             registry |-> IF registry = EmptyStr \/ registry = DefaultRegistryAlias
                          THEN DefaultRegistry ELSE registry,
             repository |-> repo]

\* name.ParseReference: what follows the last ":" is the tag unless it
\* holds a "/"; the rest is the repository (no token stands for a digest)
ParseReference(s) ==
    LET colons == {i \in 1..Len(s) : s[i] = Colon}
        last == IF colons = {} THEN 0
                ELSE CHOOSE i \in colons : \A j \in colons : j <= i
        tagged == last > 0 /\ ~Contains(Drop(s, last), <<Slash>>)
    IN NewRepository(IF tagged THEN SubSeq(s, 1, last - 1) ELSE s)

\* ref.Context().Registry.Name()
RegistryName(s) == ParseReference(s).registry

DockerHubSupportsImage(img) ==
    /\ ParseReference(img).ok
    /\ \/ RegistryName(img) = DefaultRegistry
       \/ RegistryName(img) = DefaultRegistryAlias
       \/ ~Contains(img, <<Slash>>)
       \/ (Count(img, Slash) = 1 /\ ~Contains(img, <<Dot>>))

GCPSupportsImage(img) ==
    /\ ParseReference(img).ok
    /\ \/ Contains(RegistryName(img), <<"gcr", Dot, "io">>)
       \/ Contains(RegistryName(img), <<"pkg", Dot, "dev">>)

AWSSupportsImage(img) ==
    /\ Contains(img, <<Dot, "dkr", Dot, "ecr", Dot>>)
    /\ Contains(img, <<Dot, "amazonaws", Dot, "com">>)

\* parseECRImage: the anchored expression
\*   ^(\d+)\.dkr\.ecr\.([^.]+)\.amazonaws\.com\/([^:]+)(?::(.+))?$
parseECRImage(img) ==
    LET nAccount == RunIn(img, DigitTokens)
        r1 == Drop(img, nAccount)
        r2 == Drop(r1, 5)
        nRegion == RunUntil(r2, Dot)
        r3 == Drop(r2, nRegion)
        r4 == Drop(r3, 5)
        nRepo == RunUntil(r4, Colon)
        r5 == Drop(r4, nRepo)
        matches == /\ nAccount >= 1
                   /\ HasPrefix(r1, <<Dot, "dkr", Dot, "ecr", Dot>>)
                   /\ nRegion >= 1
                   /\ HasPrefix(r3, <<Dot, "amazonaws", Dot, "com", Slash>>)
                   /\ nRepo >= 1
                   /\ (r5 = EmptyStr \/ (r5[1] = Colon /\ Len(r5) >= 2))
    IN IF matches
       THEN [err |-> "nil", region |-> SubSeq(r2, 1, nRegion),
             repository |-> SubSeq(r4, 1, nRepo)]
       ELSE [err |-> "invalid ECR image format", region |-> EmptyStr,
             repository |-> EmptyStr]

----------------------------------------------------------------------------
(* The registry client: an ordered list of providers *)

AWSName == "AWS ECR"
GCPName == "GCP (GCR/Artifact Registry)"
DockerHubName == "Docker Hub"

\* providers a caller may add: one that supports every image, one that
\* supports the images of the registry quay.io
CustomAny == "custom-any"
CustomQuay == "custom-quay"
CustomProviders == {CustomAny, CustomQuay}

\* Provider.SupportsImage of the provider named p
SupportsImage(p, img) ==
    CASE p = AWSName -> AWSSupportsImage(img)
      [] p = GCPName -> GCPSupportsImage(img)
      [] p = DockerHubName -> DockerHubSupportsImage(img)
      [] p = CustomAny -> TRUE
      [] p = CustomQuay -> HasPrefix(img, <<"quay", Dot, "io", Slash>>)

NewClientDockerHubFirst == <<DockerHubName, AWSName, GCPName>>

NewClient == <<AWSName, GCPName, DockerHubName>>

RECURSIVE findProviderFrom(_, _, _)
findProviderFrom(ps, img, i) ==
    IF i > Len(ps)
    THEN [provider |-> "nil", index |-> 0, consulted |-> ps]
    ELSE IF SupportsImage(ps[i], img)
    THEN [provider |-> ps[i], index |-> i, consulted |-> SubSeq(ps, 1, i)]
    ELSE findProviderFrom(ps, img, i + 1)

findProviderLast(ps, img) ==
    LET accepting == {i \in 1..Len(ps) : SupportsImage(ps[i], img)}
        k == CHOOSE i \in accepting : \A j \in accepting : j <= i
    IN IF accepting = {}
       THEN [provider |-> "nil", index |-> 0, consulted |-> ps]
       ELSE [provider |-> ps[k], index |-> k, consulted |-> ps]

\* the provider of an image, its index in the list, and the providers whose
\* SupportsImage the search called
findProvider(ps, img) == findProviderFrom(ps, img, 1)

\* the references callers pass
Images ==
    LET ecr == <<"123", Dot, "dkr", Dot, "ecr", Dot, "us-west-2", Dot, "amazonaws", Dot, "com">>
    IN {
    EmptyStr,
    <<"nginx">>,
    <<"nginx", Colon, "latest">>,
    <<"a">>,
    <<"Nginx">>,
    <<"library", Slash, "nginx">>,
    <<"docker", Dot, "io", Slash, "library", Slash, "nginx">>,
    <<"index", Dot, "docker", Dot, "io", Slash, "nginx", Colon, "latest">>,
    <<"gcr", Dot, "io", Slash, "repo", Slash, "nginx">>,
    <<"us", Dot, "pkg", Dot, "dev", Slash, "repo", Slash, "nginx", Colon, "latest">>,
    <<"quay", Dot, "io", Slash, "repo">>,
    <<"quay", Dot, "io", Slash, "Nginx">>,
    ecr \o <<Slash, "repo">>,
    ecr \o <<Slash, "repo", Slash, "nginx", Colon, "latest">>,
    ecr \o <<Slash, "repo", Colon>>,
    ecr,
    <<"123", Dot, "dkr", Dot, "ecr", Dot, "amazonaws", Dot, "com", Slash, "repo">>,
    <<"repo", Dot, "dkr", Dot, "ecr", Dot, "us-west-2", Dot, "amazonaws", Dot, "com", Slash, "repo">>,
    <<"gcr", Dot, "io">> \o Drop(ecr, 1) \o <<Slash, "repo">>,
    <<"gcr", Dot, "io", Slash>> \o ecr \o <<Slash, "repo">>,
    <<"nginx", Dot, "dkr", Dot, "ecr", Dot, "amazonaws", Dot, "com">>
    }

TagInfoOf(tag, createdAt) == [Tag |-> tag, CreatedAt |-> createdAt]

\* what a provider's registry answers to a listing
ListingAnswers ==
    { [err |-> "nil", value |-> <<TagInfoOf("v2", 2), TagInfoOf("v1", 1)>>],
      [err |-> "failed to list tags", value |-> "nil"] }

NoProviderFoundAsEmptyList == [err |-> "nil", value |-> <<>>]

NoProviderFound == [err |-> "no provider found for image", value |-> "nil"]

\* Provider.ListTagsWithInfo of the provider named p: the ECR provider
\* parses the image first, the two others fail on a name that is neither a
\* repository nor a reference
ProviderListTagsWithInfo(p, img, answer) ==
    IF p = AWSName /\ parseECRImage(img).err # "nil"
    THEN [err |-> parseECRImage(img).err, value |-> "nil"]
    ELSE IF p \in {GCPName, DockerHubName}
            /\ ~NewRepository(img).ok /\ ~ParseReference(img).ok
    THEN [err |-> "failed to parse image reference", value |-> "nil"]
    ELSE answer

ProviderListTagsReversed(p, img, answer) ==
    LET r == ProviderListTagsWithInfo(p, img, answer)
    IN IF r.err # "nil" THEN r
       ELSE [err |-> "nil",
             value |-> [i \in 1..Len(r.value) |-> r.value[Len(r.value) + 1 - i].Tag]]

\* Provider.ListTags: the tag names of ListTagsWithInfo
ProviderListTags(p, img, answer) ==
    LET r == ProviderListTagsWithInfo(p, img, answer)
    IN IF r.err # "nil" THEN r
       ELSE [err |-> "nil", value |-> [i \in 1..Len(r.value) |-> r.value[i].Tag]]

NoCall == [op |-> "none", img |-> EmptyStr, consulted |-> <<>>,
           invoked |-> <<>>, err |-> "nil", value |-> "nil"]

\* Client.ListTags and Client.ListTagsWithInfo, op naming the one called
ClientList(op, img, answer) ==
    LET found == findProvider(providers, img)
        r == IF found.provider = "nil" THEN NoProviderFound
             ELSE IF op = "ListTags"
             THEN ProviderListTags(found.provider, img, answer)
             ELSE ProviderListTagsWithInfo(found.provider, img, answer)
    IN lastCall' = [op |-> op, img |-> img, consulted |-> found.consulted,
                    invoked |-> IF found.provider = "nil" THEN <<>>
                                ELSE <<[provider |-> found.index, op |-> op]>>,
                    err |-> r.err, value |-> r.value]

AddProvider ==
    /\ Len(providers) < Len(NewClient) + MaxAdded
    /\ \E p \in CustomProviders : providers' = Append(providers, p)
    /\ UNCHANGED lastCall
    /\ UNCHANGED regFrame

ListTags ==
    /\ \E img \in Images, answer \in ListingAnswers :
        ClientList("ListTags", img, answer)
    /\ UNCHANGED providers
    /\ UNCHANGED regFrame

\* a dispatch that moves the provider it found to the head of the list
ListTagsWithInfoMovingToFront ==
    /\ \E img \in Images, answer \in ListingAnswers :
        /\ ClientList("ListTagsWithInfo", img, answer)
        /\ LET found == findProvider(providers, img)
           IN providers' = IF found.provider = "nil" THEN providers
                           ELSE <<found.provider>> \o SubSeq(providers, 1, found.index - 1)
                                \o SubSeq(providers, found.index + 1, Len(providers))
    /\ UNCHANGED regFrame

ListTagsWithInfo ==
    /\ \E img \in Images, answer \in ListingAnswers :
        ClientList("ListTagsWithInfo", img, answer)
    /\ UNCHANGED providers
    /\ UNCHANGED regFrame

\* GetSupportedProviders: the names of the providers, in the order of the
\* list (a provider is identified here by the string its Name returns)
GetSupportedProviders ==
    /\ lastCall' = [op |-> "GetSupportedProviders", img |-> EmptyStr,
                    consulted |-> <<>>, invoked |-> <<>>, err |-> "nil",
                    value |-> [i \in 1..Len(providers) |-> providers[i]]]
    /\ UNCHANGED providers
    /\ UNCHANGED regFrame


----------------------------------------------------------------------------
(* The listing of one provider: tags, creation times, order, truncation    *)
(*                                                                         *)
(* A tag name is the sequence of its characters, here decimal digits; a    *)
(* time is a number of seconds, ZeroTime is time.Time{} and UnixEpoch is   *)
(* time.Unix(0, 0); the creation times of images are UnixEpoch, which      *)
(* builds with a fixed creation time record, or later.                     *)

ZeroTime == 0 - 1
UnixEpoch == 0

\* the decimal digits of k
RECURSIVE Digits(_)
Digits(k) == IF k < 10 THEN <<k>> ELSE Append(Digits(k \div 10), k % 10)

\* a < b for Go strings
RECURSIVE LexLess(_, _)
LexLess(a, b) ==
    IF a = <<>> THEN b # <<>>
    ELSE IF b = <<>> THEN FALSE
    ELSE IF Head(a) # Head(b) THEN Head(a) < Head(b)
    ELSE LexLess(Tail(a), Tail(b))

\* s without its element at index i
Without(s, i) == SubSeq(s, 1, i - 1) \o SubSeq(s, i + 1, Len(s))

KeepOrder(tags) == tags

\* sort.Strings
RECURSIVE SortStrings(_)
SortStrings(tags) ==
    IF tags = <<>> THEN <<>>
    ELSE LET least == CHOOSE i \in 1..Len(tags) :
                          /\ \A j \in 1..Len(tags) : ~LexLess(tags[j], tags[i])
                          /\ \A j \in 1..(i - 1) : tags[j] # tags[i]
         IN <<tags[least]>> \o SortStrings(Without(tags, least))

\* the orders in which the elements of infos at the indices S can follow
\* one another so that none is followed by a newer one
RECURSIVE NewestFirstOrders(_, _)
NewestFirstOrders(infos, S) ==
    IF S = {} THEN {<<>>}
    ELSE LET newest == {i \in S : \A j \in S : infos[i].CreatedAt >= infos[j].CreatedAt}
         IN UNION {{<<infos[i]>> \o rest : rest \in NewestFirstOrders(infos, S \ {i})} :
                   i \in newest}

\* sort.Slice with less = CreatedAt.After: the sort is not stable, every
\* order without an element before a newer one is a possible result
SortSlice(infos) == NewestFirstOrders(infos, 1..Len(infos))

NoTruncate(infos) == infos

\* if len(tagInfos) > 20 { tagInfos = tagInfos[:20] }
Truncate(infos) ==
    IF Len(infos) > TagLimit THEN SubSeq(infos, 1, TagLimit) ELSE infos

createdAtAsReported(created) == created

\* createdAt := config.Created.Time
\* if createdAt.IsZero() { createdAt = time.Unix(0, 0) }
createdAt(created) == IF created = ZeroTime THEN UnixEpoch ELSE created

tagsToProcessAll(tags) == tags

\* tagsToProcess := tags; if len(tags) > 50 { tagsToProcess = tags[:50] }
tagsToProcess(tags) ==
    IF Len(tags) > EnrichLimit THEN SubSeq(tags, 1, EnrichLimit) ELSE tags

getTagsAbortOnFailure(tags, outcome) ==
    [err |-> "failed to get creation time for any tags", value |-> "nil",
     attempted |-> tags]

\* getTagsWithCreationTime as a function of what the lookups answer:
\* outcome[i].ok tells whether the lookup of tags[i] succeeded and
\* outcome[i].Created is config.Created, ZeroTime when the image config
\* has no creation time; attempted lists the tags a goroutine is started
\* for, in the order of the loop.  The successful lookups are given in the
\* order of the tags; the order of arrival is the scheduler's, and
\* SortSlice yields the same set of orders for every order of arrival.
getTagsWithCreationTime(tags, outcome) ==
    LET toProcess == tagsToProcess(tags)
        ok == SelectSeq([i \in 1..Len(toProcess) |-> i],
                        LAMBDA i : outcome[i].ok)
        infos == [k \in 1..Len(ok) |->
                        TagInfoOf(toProcess[ok[k]], createdAt(outcome[ok[k]].Created))]
    IN IF Len(infos) = 0
       THEN [err |-> "failed to get creation time for any tags", value |-> "nil",
             attempted |-> toProcess]
       ELSE [err |-> "nil", value |-> infos, attempted |-> toProcess]

\* the fallback taken over the tags a lookup was started for
GenericListFallbackOnAttempted(input) ==
    LET sorted == SortStrings(tagsToProcess(input.tags))
    IN {[err |-> "nil",
         value |-> Truncate([i \in 1..Len(sorted) |-> TagInfoOf(sorted[i], ZeroTime)]),
         attempted |-> tagsToProcess(input.tags), held |-> 0]}

GenericListEmptySuccess(input) ==
    {[err |-> "nil", value |-> <<>>, attempted |-> <<>>, held |-> 0]}

\* ListTagsWithInfo of the Docker Hub and of the GCP provider, after the
\* image is parsed: the results it can return for what remote.List and the
\* lookups answer, each with the tags a lookup was started for (attempted)
\* and the number of image details held (held, of the ECR provider)
GenericListTagsWithInfo(input) ==
    IF ~input.listOk
    THEN {[err |-> "failed to list tags", value |-> "nil",
           attempted |-> <<>>, held |-> 0]}
    ELSE IF Len(input.tags) = 0
    THEN {[err |-> "no tags found for image", value |-> "nil",
           attempted |-> <<>>, held |-> 0]}
    ELSE LET enriched == getTagsWithCreationTime(input.tags, input.outcome)
             sorted == SortStrings(input.tags)
         IN IF enriched.err # "nil"
            THEN {[err |-> "nil",
                   value |-> Truncate([i \in 1..Len(sorted) |->
                                          TagInfoOf(sorted[i], ZeroTime)]),
                   attempted |-> enriched.attempted, held |-> 0]}
            ELSE {[err |-> "nil", value |-> Truncate(o),
                   attempted |-> enriched.attempted, held |-> 0] :
                     o \in SortSlice(enriched.value)}

\* the image details of the pages the paginator is asked for: paging
\* stops once ECRLimit details are held
RECURSIVE DescribeImages(_, _)
DescribeImages(pages, held) ==
    IF pages = <<>> THEN held
    ELSE IF Len(held \o Head(pages)) >= ECRLimit THEN held \o Head(pages)
    ELSE DescribeImages(Tail(pages), held \o Head(pages))

\* the TagInfo of the tags of the image details ds, from the detail d on;
\* calls counts the time.Now() calls made so far
RECURSIVE ECRTagInfos(_, _, _, _, _)
ECRTagInfos(ds, d, t, calls_, clk) ==
    IF d > Len(ds) THEN <<>>
    ELSE IF t > Len(ds[d].ImageTags) THEN ECRTagInfos(ds, d + 1, 1, calls_, clk)
    ELSE IF ds[d].ImageTags[t] = EmptyStr THEN ECRTagInfos(ds, d, t + 1, calls_, clk)
    ELSE LET now == clk.now + calls_ * clk.step
             created == IF ~ds[d].ImagePushedAt.isNil
                        THEN ds[d].ImagePushedAt.time ELSE now
         IN <<TagInfoOf(ds[d].ImageTags[t], created)>>
            \o ECRTagInfos(ds, d, t + 1, calls_ + 1, clk)

\* ListTagsWithInfo of the ECR provider, after the image is parsed
AWSListTagsWithInfo(input) ==
    IF ~input.listOk
    THEN {[err |-> "failed to describe images", value |-> "nil",
           attempted |-> <<>>, held |-> 0]}
    ELSE LET allImageDetails == DescribeImages(input.pages, <<>>)
             infos == ECRTagInfos(allImageDetails, 1, 1, 0, input.clk)
         IN IF Len(infos) = 0
            THEN {[err |-> "no tagged images found in ECR repository", value |-> "nil",
                   attempted |-> <<>>, held |-> Len(allImageDetails)]}
            ELSE {[err |-> "nil", value |-> Truncate(o),
                   attempted |-> <<>>, held |-> Len(allImageDetails)] :
                     o \in SortSlice(infos)}

\* the sizes of the tag lists of a repository
ListSizes == {1, 2, 3} \cup ((MaxTags - 2)..MaxTags)

\* the sizes of the tag lists longer than the lookups go
LongSizes == (EnrichLimit + 1)..MaxLongTags

TagOrders == {"ascending", "descending", "rotated"}

\* the tags as remote.List returns them: n names in one of three orders
TagsOf(n, order) ==
    [i \in 1..n |-> Digits(CASE order = "ascending" -> i
                             [] order = "descending" -> n + 1 - i
                             [] order = "rotated" -> (i % n) + 1)]

Lookup(isOk, created) == [ok |-> isOk, Created |-> created]

TimePatterns == {"all fail", "later", "earlier", "tie", "partial", "newest fails",
                 "late only", "no time", "epoch", "mixed", "zero"}

\* what the lookups of n tags answer
OutcomeOf(n, pattern) ==
    [i \in 1..n |->
        CASE pattern = "all fail" -> Lookup(FALSE, ZeroTime)
          [] pattern = "later" -> Lookup(TRUE, i)
          [] pattern = "earlier" -> Lookup(TRUE, n + 1 - i)
          [] pattern = "tie" -> Lookup(TRUE, IF i >= n - 1 THEN n ELSE i)
          [] pattern = "partial" -> Lookup(i % 2 = 0, i)
          [] pattern = "newest fails" -> Lookup(i # n, i)
          [] pattern = "late only" -> Lookup(i > EnrichLimit, i)
          [] pattern = "no time" -> Lookup(TRUE, IF i >= n - 1 THEN ZeroTime ELSE i)
          [] pattern = "epoch" -> Lookup(TRUE, IF i = 1 THEN ZeroTime
                                               ELSE IF i = 2 THEN UnixEpoch ELSE i)
          [] pattern = "mixed" -> Lookup(i # 1, IF i = 2 THEN ZeroTime ELSE i)
          [] pattern = "zero" -> Lookup(TRUE, ZeroTime)]

\* what remote.List and the lookups answer to one ListTagsWithInfo
GenericInputs ==
    {[listOk |-> ok, tags |-> <<>>, outcome |-> <<>>] : ok \in BOOLEAN}
    \cup {[listOk |-> TRUE, tags |-> TagsOf(n, order), outcome |-> OutcomeOf(n, pattern)] :
            n \in ListSizes, order \in TagOrders,
            pattern \in TimePatterns \ {"zero", "late only"}}
    \cup {[listOk |-> TRUE, tags |-> TagsOf(n, order), outcome |-> OutcomeOf(n, "zero")] :
            n \in 1..3, order \in TagOrders}
    \cup {[listOk |-> TRUE, tags |-> TagsOf(n, order), outcome |-> OutcomeOf(n, pattern)] :
            n \in LongSizes, order \in TagOrders, pattern \in {"later", "late only"}}

PushedAt(t) == [isNil |-> FALSE, time |-> t]
NotPushed == [isNil |-> TRUE, time |-> ZeroTime]

ECRPatterns == {"later", "earlier", "tie", "not pushed", "untagged", "empty tag", "two tags",
                "few tagged"}

\* the image details DescribeImages answers for n images
DetailsOf(n, pattern) ==
    [i \in 1..n |->
        [ImageTags |->
            CASE pattern = "untagged" /\ i % 2 = 1 -> <<>>
              [] pattern = "few tagged" /\ i > 2 -> <<>>
              [] pattern = "empty tag" /\ i = 1 -> <<EmptyStr, Digits(i)>>
              [] pattern = "two tags" /\ i = 1 -> <<Digits(i), Digits(n + 1)>>
              [] OTHER -> <<Digits(i)>>,
         ImagePushedAt |->
            CASE pattern = "earlier" -> PushedAt(n + 1 - i)
              [] pattern = "tie" /\ i >= n - 1 -> PushedAt(n)
              [] pattern = "not pushed" /\ i >= n - 1 -> NotPushed
              [] OTHER -> PushedAt(i)]]

\* the details in one page, or in two
PagesOf(ds, split) ==
    IF split THEN <<SubSeq(ds, 1, Len(ds) \div 2), SubSeq(ds, Len(ds) \div 2 + 1, Len(ds))>>
    ELSE <<ds>>

\* the details in pages of size details each, the last one shorter
RECURSIVE Chunks(_, _)
Chunks(ds, size) ==
    IF Len(ds) <= size THEN <<ds>>
    ELSE <<SubSeq(ds, 1, size)>> \o Chunks(SubSeq(ds, size + 1, Len(ds)), size)

\* the number of details in a page of a large repository: MaxResults, or
\* fewer, which DescribeImages is free to answer
PageSizes == {MaxResults \div 4, MaxResults \div 2, MaxResults - 1, MaxResults}

\* what ECR answers for a repository of more than ECRLimit images, few of
\* them tagged
LongECRInputs ==
    {[listOk |-> TRUE, pages |-> Chunks(DetailsOf(n, "few tagged"), size),
      clk |-> [now |-> MaxDetails + 2, step |-> 0]] :
        n \in (ECRLimit + 1)..MaxDetails, size \in PageSizes}

\* what ECR answers to one ListTagsWithInfo, and what time.Now() reads:
\* now, later than every push, and step more at every further call
ECRInputs ==
    {[listOk |-> ok, pages |-> <<>>, clk |-> [now |-> MaxTags + 2, step |-> 0]] :
        ok \in BOOLEAN}
    \cup {[listOk |-> TRUE, pages |-> PagesOf(DetailsOf(n, pattern), split),
           clk |-> [now |-> MaxTags + 2, step |-> step]] :
            n \in ListSizes, pattern \in ECRPatterns, split \in BOOLEAN,
            step \in 0..1}
    \cup LongECRInputs

NoListing == [backend |-> "none", input |-> <<>>, err |-> "nil", value |-> <<>>,
              attempted |-> <<>>, held |-> 0]

Listed(backend, input, r) ==
    listing' = [backend |-> backend, input |-> input, err |-> r.err, value |-> r.value,
                attempted |-> r.attempted, held |-> r.held]

DockerHubListTagsWithInfo ==
    /\ listing = NoListing
    /\ \E input \in GenericInputs :
        \E r \in GenericListTagsWithInfo(input) : Listed(DockerHubName, input, r)
    /\ UNCHANGED listFrame

GCPListTagsWithInfo ==
    /\ listing = NoListing
    /\ \E input \in GenericInputs :
        \E r \in GenericListTagsWithInfo(input) : Listed(GCPName, input, r)
    /\ UNCHANGED listFrame

ECRListTagsWithInfo ==
    /\ listing = NoListing
    /\ \E input \in ECRInputs :
        \E r \in AWSListTagsWithInfo(input) : Listed(AWSName, input, r)
    /\ UNCHANGED listFrame

----------------------------------------------------------------------------
(* getTagsWithCreationTime as goroutines: one lookup per tag, a semaphore, *)
(* two buffered channels and the collecting loop.                          *)
(*                                                                         *)
(* The goroutines run the same code and differ by their tag only, which    *)
(* no branch reads: pool holds, for every position a goroutine can be at   *)
(* and every number of values it has sent, how many goroutines are there.  *)

\* a goroutine at position pos that has sent r values on results and e on
\* errors; the positions are "start" (before sem <- struct{}{}), "lookup"
\* (semaphore held, remote.Image and ConfigFile under way), "sent" (value
\* sent, deferred <-sem not run yet) and "exit"
Goroutine(pos, r, e) == [pos |-> pos, results |-> r, errors |-> e]

\* the goroutines of the pool at position pos
At(pos) == {g \in BagToSet(pool) : g.pos = pos}

\* how many goroutines are at position pos
CountAt(pos) ==
    LET gs == At(pos)
        RECURSIVE Sum(_)
        Sum(S) == IF S = {} THEN 0
                  ELSE LET g == CHOOSE x \in S : TRUE
                       IN CopiesIn(g, pool) + Sum(S \ {g})
    IN Sum(gs)

\* one goroutine goes from g to h
Move(g, h) == pool' = (pool (-) SetToBag({g})) (+) SetToBag({h})

\* len(tagsToProcess)
TagsToProcess(n) == IF n > EnrichLimit THEN EnrichLimit ELSE n

SemCapacityOfTags(n) == n

\* maxConcurrent, the capacity of sem
SemCapacity(n) == IF n < MaxConcurrent THEN n ELSE MaxConcurrent

ChanCapacityOne(n) == 1

\* the capacity of results and of errors
ChanCapacity(n) == TagsToProcess(n)

\* go func(t string) { ... }(tag), once per tag of tagsToProcess; the
\* collecting loop follows the last one
Launch ==
    /\ epc = "launch"
    /\ launched < TagsToProcess(nTags)
    /\ launched' = launched + 1
    /\ pool' = pool (+) SetToBag({Goroutine("start", 0, 0)})
    /\ epc' = IF launched + 1 = TagsToProcess(nTags) THEN "collect" ELSE "launch"
    /\ UNCHANGED <<nTags, sem, results, errors, collected, tagInfos, enrichErr>>
    /\ UNCHANGED enrichFrame

\* sem <- struct{}{}: blocks while the semaphore is full
Acquire ==
    /\ \E g \in At("start") : Move(g, [g EXCEPT !.pos = "lookup"])
    /\ sem < SemCapacity(nTags)
    /\ sem' = sem + 1
    /\ UNCHANGED <<epc, nTags, launched, results, errors, collected, tagInfos, enrichErr>>
    /\ UNCHANGED enrichFrame

\* errors <- err, after name.ParseReference, remote.Image or img.ConfigFile
\* failed: blocks while the channel is full
LookupFails ==
    /\ \E g \in At("lookup") :
        Move(g, [g EXCEPT !.pos = "sent", !.errors = g.errors + 1])
    /\ errors < ChanCapacity(nTags)
    /\ errors' = errors + 1
    /\ UNCHANGED <<epc, nTags, launched, sem, results, collected, tagInfos, enrichErr>>
    /\ UNCHANGED enrichFrame

\* results <- TagInfo{...}, with the creation time or time.Unix(0, 0):
\* blocks while the channel is full
LookupSucceeds ==
    /\ \E g \in At("lookup") :
        Move(g, [g EXCEPT !.pos = "sent", !.results = g.results + 1])
    /\ results < ChanCapacity(nTags)
    /\ results' = results + 1
    /\ UNCHANGED <<epc, nTags, launched, sem, errors, collected, tagInfos, enrichErr>>
    /\ UNCHANGED enrichFrame

\* defer func() { <-sem }()
Release ==
    /\ \E g \in At("sent") : Move(g, [g EXCEPT !.pos = "exit"])
    /\ sem > 0
    /\ sem' = sem - 1
    /\ UNCHANGED <<epc, nTags, launched, results, errors, collected, tagInfos, enrichErr>>
    /\ UNCHANGED enrichFrame

\* case tagInfo := <-results
CollectResult ==
    /\ epc = "collect"
    /\ collected < TagsToProcess(nTags)
    /\ results > 0
    /\ results' = results - 1
    /\ tagInfos' = tagInfos + 1
    /\ collected' = collected + 1
    /\ UNCHANGED <<epc, nTags, launched, pool, sem, errors, enrichErr>>
    /\ UNCHANGED enrichFrame

\* case err := <-errors
CollectError ==
    /\ epc = "collect"
    /\ collected < TagsToProcess(nTags)
    /\ errors > 0
    /\ errors' = errors - 1
    /\ collected' = collected + 1
    /\ UNCHANGED <<epc, nTags, launched, pool, sem, results, tagInfos, enrichErr>>
    /\ UNCHANGED enrichFrame

\* the loop is over: return tagInfos, nil, or the error when it is empty
EnrichReturns ==
    /\ epc = "collect"
    /\ collected = TagsToProcess(nTags)
    /\ epc' = "returned"
    /\ enrichErr' = IF tagInfos = 0
                    THEN "failed to get creation time for any tags" ELSE "nil"
    /\ UNCHANGED <<nTags, launched, pool, sem, results, errors, collected, tagInfos>>
    /\ UNCHANGED enrichFrame

\* no enrichment runs
EnrichIdle ==
    /\ epc = "idle"
    /\ nTags = 0
    /\ launched = 0
    /\ pool = EmptyBag
    /\ sem = 0
    /\ results = 0
    /\ errors = 0
    /\ collected = 0
    /\ tagInfos = 0
    /\ enrichErr = "pending"

\* the package's state when the command starts: NewSetImageOptions makes
\* the registry client
LibraryInit ==
    /\ providers = NewClient
    /\ lastCall = NoCall
    /\ listing = NoListing
    /\ EnrichIdle

----------------------------------------------------------------------------
(* The command: kubectl setimg [DEPLOYMENT [CONTAINER=IMAGE]] [--list] [--watch] *)

Init ==
    /\ pc = "complete"
    /\ args \in ArgLists
    /\ listOnly \in BOOLEAN
    /\ watchMode \in BOOLEAN
    /\ watchTimeout \in Timeouts
    /\ deployment = EmptyStr
    /\ container = EmptyStr
    /\ image = EmptyStr
    /\ previousImage = EmptyStr
    /\ shownImage = EmptyStr
    /\ others = {}
    /\ interactive = FALSE
    /\ result = "pending"
    /\ cluster \in {<<[Name |-> ContainerName, Image |-> i]>> : i \in DeployedImages}
    /\ calls = <<>>
    /\ wpc = "idle"
    /\ clock = 0
    /\ timeoutFired = FALSE
    /\ tickPending = FALSE
    /\ checks = 0
    /\ checksAfterTimeout = 0
    /\ lastObs = NoObs
    /\ lastCheck = NoCheck
    /\ watchErr = "none"
    /\ tagFetch = "nil"
    /\ LibraryInit

\* the answers drawn in the runs of the whole command
RunObservations ==
    {o \in Observations :
        Len(o.pods) <= MaxRunPods /\ (o.getOk => o.Replicas = MaxReplicas)}

CheckReturnsInRun == CheckReturns(RunObservations)

Next ==
    \/ Complete
    \/ ListContainers
    \/ SavePreviousImage
    \/ UpdateImage
    \/ AdvanceTime
    \/ SelectTimeout
    \/ SelectTick
    \/ CheckReturnsInRun
    \/ WatchReturns
    \/ Confirm
    \/ Rollback

Spec == Init /\ [][Next]_vars

(* The command on a deployment that another client of the API server      *)
(* patches too.  The deployment is read anew by every Deployments.Get, so  *)
(* what another client wrote between two calls of the command is what the *)
(* later call finds.                                                       *)

\* the images another client gives the container
OtherImages == ClusterImages

\* the positions of the command at which the other client is followed:
\* after runInteractiveMode, between savePreviousImage and the forward
\* patch, and while WatchDeployment runs
SharedPositions == {"run", "update", "watching"}

\* another client patches the image of a container, once per position
OtherActor ==
    /\ pc \in SharedPositions
    /\ ~listOnly
    /\ pc \notin others
    /\ \E i \in 1..Len(cluster), img \in OtherImages :
        /\ cluster[i].Image # img
        /\ cluster' = [cluster EXCEPT ![i].Image = img]
    /\ others' = others \cup {pc}
    /\ UNCHANGED <<pc, args, listOnly, watchMode, watchTimeout, deployment,
                   container, image, previousImage, shownImage, interactive,
                   result, calls, tagFetch>>
    /\ UNCHANGED watchVars
    /\ UNCHANGED libVars

\* the answers drawn in the runs next to another client: an error of the
\* Get, and deployments without listed pods, ready or not
SharedObservations ==
    {o \in RunObservations :
        ~o.getOk \/ (o.listOk /\ o.pods = <<>> /\ o.ReadyReplicas = o.UpdatedReplicas)}

CheckReturnsShared == CheckReturns(SharedObservations)

NextShared ==
    \/ Complete
    \/ ListContainers
    \/ SavePreviousImage
    \/ UpdateImage
    \/ AdvanceTime
    \/ SelectTimeout
    \/ SelectTick
    \/ CheckReturnsShared
    \/ WatchReturns
    \/ Confirm
    \/ Rollback
    \/ OtherActor

SpecShared == Init /\ [][NextShared]_vars

(* The command with its scheduling: every call of the API server returns,  *)
(* the operator answers the confirmation, time passes, and a select with   *)
(* several ready cases takes each of them sooner or later (the case is     *)
(* chosen by a uniform pseudo-random selection).  The watch may go on      *)
(* polling after the last second the timers are followed to.               *)

NextLive ==
    \/ Complete
    \/ ListContainers
    \/ SavePreviousImage
    \/ UpdateImage
    \/ AdvanceTime
    \/ LaterTick
    \/ SelectTimeout
    \/ SelectTick
    \/ CheckReturnsShared
    \/ WatchReturns
    \/ Confirm
    \/ Rollback

Fairness ==
    /\ WF_vars(Complete)
    /\ WF_vars(ListContainers)
    /\ WF_vars(SavePreviousImage)
    /\ WF_vars(UpdateImage)
    /\ WF_vars(AdvanceTime)
    /\ WF_vars(SelectTick)
    /\ SF_vars(SelectTimeout)
    /\ WF_vars(CheckReturnsShared)
    /\ WF_vars(WatchReturns)
    /\ WF_vars(Confirm)
    /\ WF_vars(Rollback)

SpecLive == Init /\ [][NextLive]_vars /\ Fairness

(* WatchDeployment called on its own, on the deployment of the cluster *)

InitWatch ==
    /\ pc = "external"
    /\ args = <<>>
    /\ listOnly = FALSE
    /\ watchMode = TRUE
    /\ watchTimeout \in Timeouts
    /\ deployment = DeploymentName
    /\ container = EmptyStr
    /\ image = EmptyStr
    /\ previousImage = EmptyStr
    /\ shownImage = EmptyStr
    /\ others = {}
    /\ interactive = FALSE
    /\ result = "pending"
    /\ cluster \in {<<[Name |-> ContainerName, Image |-> i]>> : i \in ClusterImages}
    /\ calls = <<>>
    /\ wpc = "select"
    /\ clock = 0
    /\ timeoutFired = (watchTimeout <= 0)
    /\ tickPending = FALSE
    /\ checks = 0
    /\ checksAfterTimeout = 0
    /\ lastObs = NoObs
    /\ lastCheck = NoCheck
    /\ watchErr = "none"
    /\ tagFetch = "nil"
    /\ LibraryInit

CheckReturnsInWatch == CheckReturns(Observations)

NextWatch ==
    \/ AdvanceTime
    \/ SelectTimeout
    \/ SelectTick
    \/ CheckReturnsInWatch

SpecWatch == InitWatch /\ [][NextWatch]_vars

(* A registry client used on its own: providers are added, images listed *)

\* no command runs
AppAbsent ==
    /\ pc = "external"
    /\ args = <<>>
    /\ listOnly = FALSE
    /\ watchMode = FALSE
    /\ watchTimeout = 0
    /\ deployment = EmptyStr
    /\ container = EmptyStr
    /\ image = EmptyStr
    /\ previousImage = EmptyStr
    /\ shownImage = EmptyStr
    /\ others = {}
    /\ interactive = FALSE
    /\ result = "pending"
    /\ cluster = <<>>
    /\ calls = <<>>
    /\ wpc = "idle"
    /\ clock = 0
    /\ timeoutFired = FALSE
    /\ tickPending = FALSE
    /\ checks = 0
    /\ checksAfterTimeout = 0
    /\ lastObs = NoObs
    /\ lastCheck = NoCheck
    /\ watchErr = "none"
    /\ tagFetch = "nil"

InitRegistry ==
    /\ AppAbsent
    /\ LibraryInit

NextRegistry ==
    \/ AddProvider
    \/ ListTags
    \/ ListTagsWithInfo
    \/ GetSupportedProviders

SpecRegistry == InitRegistry /\ [][NextRegistry]_vars

(* One ListTagsWithInfo of a provider, for what its registry answers *)

InitListing ==
    /\ AppAbsent
    /\ LibraryInit

NextListing ==
    \/ DockerHubListTagsWithInfo
    \/ GCPListTagsWithInfo
    \/ ECRListTagsWithInfo

SpecListing == InitListing /\ [][NextListing]_vars

(* One getTagsWithCreationTime, for the tags of a repository *)

EnrichSizes == {1, 2} \cup ((MaxEnrichTags - 2)..MaxEnrichTags)

InitEnrich ==
    /\ AppAbsent
    /\ providers = NewClient
    /\ lastCall = NoCall
    /\ listing = NoListing
    /\ epc = "launch"
    /\ nTags \in EnrichSizes
    /\ launched = 0
    /\ pool = EmptyBag
    /\ sem = 0
    /\ results = 0
    /\ errors = 0
    /\ collected = 0
    /\ tagInfos = 0
    /\ enrichErr = "pending"

NextEnrich ==
    \/ Launch
    \/ Acquire
    \/ LookupFails
    \/ LookupSucceeds
    \/ Release
    \/ CollectResult
    \/ CollectError
    \/ EnrichReturns

SpecEnrich == InitEnrich /\ [][NextEnrich]_vars

----------------------------------------------------------------------------
(* Properties of the rollout supervisor and of the readiness watcher *)

PatchCalls == {i \in 1..Len(calls) : calls[i].op = "patch"}
ConfirmCalls == {i \in 1..Len(calls) : calls[i].op = "confirm"}
DeclineKeys == {"n", "N", "q", "ctrl+c", "esc"}
CheckFailures == {"pod failed", "restarting too frequently", "has problem"}

\* the image the cluster holds for the container the command works on
ImageInCluster == FindImage(cluster, container).Image

\* C1: the read of the container's current image by savePreviousImage comes
\* before the forward patch: every patch issued is preceded by a successful
\* read, which is the first call of RunWithPatch and gave previousImage; when
\* the read fails the command ends there with the read's error and no patch.
C1_ReadBeforePatch ==
    /\ \A i \in PatchCalls :
          /\ i > 1
          /\ calls[1].op = "get"
          /\ calls[1].ok
          /\ calls[1].image = previousImage
    /\ (Len(calls) >= 1 /\ ~calls[1].ok) =>
          /\ calls[1].op = "get"
          /\ Len(calls) = 1
          /\ pc = "done"
          /\ result \in {"failed to get deployment", "container not found"}

C1_Witness ==
    /\ Len(calls) >= 2
    /\ calls[1].op = "get"
    /\ calls[2].op = "patch"
    /\ calls[2].image = image

\* C2: a watch that ends by the timeout makes the command fail unless it
\* rolls back: the command returns nil only after a successful rollback
\* patch; a confirmed rollback issues that patch, and when it succeeds the
\* command ends with nil, its last call being a patch of the same deployment
\* and container as the forward patch to the image that savePreviousImage
\* read before the forward patch, which the cluster then holds.
C2_TimeoutRollsBack ==
    (pc = "done" /\ watchErr = "timeout") =>
        LET last == calls[Len(calls)]
            rolledBack == Len(calls) > 2 /\ last.op = "patch" /\ last.ok
        IN
        /\ Len(calls) >= 2
        /\ calls[1].op = "get" /\ calls[1].ok
        /\ calls[2].op = "patch" /\ calls[2].ok
        /\ result = "nil" => rolledBack
        /\ (\E i \in ConfirmCalls : calls[i].ok) =>
              (Len(calls) > 2 /\ last.op = "patch" /\ Cardinality(PatchCalls) = 2)
        /\ rolledBack =>
              /\ result = "nil"
              /\ last.deployment = calls[2].deployment
              /\ last.container = calls[2].container
              /\ last.image = calls[1].image
              /\ ImageInCluster = calls[1].image

C2_Witness ==
    /\ pc = "done"
    /\ watchErr = "timeout"
    /\ Len(calls) = 4
    /\ calls[4].op = "patch" /\ calls[4].ok
    /\ calls[4].image # calls[2].image
    /\ ImageInCluster = previousImage

\* C3: when the rollback patch fails the command ends with the error
\* "failed to rollback deployment", which is neither nil nor the error of
\* the watch.
C3_RollbackFailureReported ==
    (Len(calls) = 4 /\ calls[4].op = "patch" /\ ~calls[4].ok) =>
        /\ pc = "done"
        /\ result = "failed to rollback deployment"
        /\ result # "nil"
        /\ result # watchErr

C3_Witness ==
    /\ Len(calls) = 4
    /\ calls[4].op = "patch"
    /\ ~calls[4].ok
    /\ previousImage \in ClusterImages

\* C4: a readiness check reports ready exactly when the deployment it read
\* has readyReplicas = desired and updatedReplicas = desired; with one of
\* the two equalities alone it reports not ready.
C4_ReadyIffBothCountsMet ==
    (~lastObs.none) =>
        /\ lastCheck.ready <=>
              /\ lastObs.getOk
              /\ lastObs.ReadyReplicas = lastObs.Replicas
              /\ lastObs.UpdatedReplicas = lastObs.Replicas
        /\ (lastObs.getOk
            /\ (lastObs.ReadyReplicas = lastObs.Replicas)
                 # (lastObs.UpdatedReplicas = lastObs.Replicas))
           => ~lastCheck.ready

C4_Witness ==
    /\ ~lastObs.none
    /\ lastObs.getOk
    /\ lastObs.Replicas = MaxReplicas
    /\ lastObs.ReadyReplicas = MaxReplicas
    /\ lastObs.UpdatedReplicas = MaxReplicas - 1
    /\ ~lastCheck.ready

\* a pod-level failure signal among the pods of an answer
FailureSignal(o) ==
    \E i \in 1..Len(o.pods) :
        \/ o.pods[i].Phase = "Failed"
        \/ \E j \in 1..Len(o.pods[i].ContainerStatuses) :
              \/ o.pods[i].ContainerStatuses[j].RestartCount > 3
              \/ o.pods[i].ContainerStatuses[j].Waiting
                    \in {"ImagePullBackOff", "CrashLoopBackOff", "ErrImagePull"}

\* the last check read a deployment that is not ready, and its pods
PolledNotReady ==
    /\ ~lastObs.none
    /\ lastObs.getOk
    /\ lastObs.listOk
    /\ ~(lastObs.ReadyReplicas = lastObs.Replicas
         /\ lastObs.UpdatedReplicas = lastObs.Replicas)

\* C5: when a poll finds the deployment not ready and a listed pod is
\* Failed, or a container restarted more than 3 times, or waits with
\* ImagePullBackOff, CrashLoopBackOff or ErrImagePull, the watch ends with
\* that failure on that poll; without such a signal (a restart count of 3,
\* another waiting reason) the poll reports nothing and the watch goes on,
\* to end only by a later poll or the timeout.
C5_FailureSignalsEndWatch ==
    PolledNotReady =>
        IF FailureSignal(lastObs)
        THEN /\ wpc = "returned"
             /\ watchErr \in CheckFailures
             /\ lastCheck = [ready |-> FALSE, err |-> watchErr, listed |-> TRUE]
        ELSE /\ lastCheck = [ready |-> FALSE, err |-> "nil", listed |-> TRUE]
             /\ wpc = "returned" => watchErr = "timeout"

C5_Witness ==
    /\ PolledNotReady
    /\ Len(lastObs.pods) >= 1
    /\ \E j \in 1..Len(lastObs.pods[1].ContainerStatuses) :
          lastObs.pods[1].ContainerStatuses[j].RestartCount = RestartLimit + 1
    /\ wpc = "returned"
    /\ watchErr = "restarting too frequently"

\* WatchDeployment has reached a terminal condition
WatchTerminal ==
    \/ lastCheck.ready
    \/ lastCheck.err \notin {"nil", "none"}
    \/ watchErr = "timeout"

\* C6: once a poll reported ready, a poll reported a failure, or the
\* timeout branch was taken, no readiness check is started any more.
C6_NoPollAfterTerminal ==
    [][WatchTerminal => (checks' = checks /\ wpc' = wpc /\ lastObs' = lastObs)]_vars

C6_Witness ==
    /\ wpc = "returned"
    /\ lastCheck.ready
    /\ checks >= 2

\* C7: after the timeout has fired no readiness check is started, so that
\* a watch never returns ready, nor a failure of a check, from a check
\* started after the timeout.
C7_NoCheckAfterTimeout ==
    checksAfterTimeout = 0

\* C8: in direct mode (deployment and container=image on the command line)
\* the rollback is not preceded by a call of ConfirmRollback.
C8_NoConfirmationInDirectMode ==
    (~interactive) => ConfirmCalls = {}

\* C9: when the operator declines the confirmation (n, N, q, ctrl+c, esc)
\* no rollback patch is issued, the cluster keeps the new image, and the
\* command ends with the error "rollback cancelled".
C9_DeclineCancelsRollback ==
    \A i \in ConfirmCalls :
        calls[i].key \in DeclineKeys =>
            /\ pc = "done"
            /\ result = "rollback cancelled"
            /\ Len(calls) = i
            /\ Cardinality(PatchCalls) = 1
            /\ ImageInCluster = image

C9_Witness ==
    /\ Len(calls) = 3
    /\ calls[3].op = "confirm"
    /\ calls[3].key = "q"
    /\ result = "rollback cancelled"
    /\ image # previousImage

\* C10: without --watch a successful forward patch ends the command with
\* nil: no readiness check is started and no second patch is issued.
C10_NoWatchIsTerminalSuccess ==
    (~watchMode) =>
        /\ checks = 0
        /\ wpc = "idle"
        /\ Cardinality(PatchCalls) <= 1
        /\ \A i \in PatchCalls : calls[i].ok => (pc = "done" /\ result = "nil")

C10_Witness ==
    /\ ~watchMode
    /\ pc = "done"
    /\ result = "nil"
    /\ Len(calls) = 2
    /\ calls[2].op = "patch" /\ calls[2].ok


----------------------------------------------------------------------------
(* Properties of the registry client *)

\* the indices of the providers whose SupportsImage accepts img
Accepting(img) == {i \in 1..Len(providers) : SupportsImage(providers[i], img)}

LowestAccepting(img) ==
    CHOOSE i \in Accepting(img) : \A j \in Accepting(img) : i <= j

\* the listing calls of the client
ListOps == {"ListTags", "ListTagsWithInfo"}

\* the listing call that lastCall records was made on the built-in list
OnBuiltinList == providers = NewClient /\ lastCall.op \in ListOps

\* C11: a listing call that some provider accepts is delegated to exactly
\* one provider, the one of lowest index whose SupportsImage is true, and
\* no provider after it is asked or invoked.
C11_LowestIndexProviderOnly ==
    [][(lastCall' # lastCall /\ lastCall'.op \in ListOps
        /\ Accepting(lastCall'.img) # {}) =>
        LET k == LowestAccepting(lastCall'.img) IN
        /\ lastCall'.invoked = <<[provider |-> k, op |-> lastCall'.op]>>
        /\ lastCall'.consulted = SubSeq(providers, 1, k)]_vars

\* a call that two providers accept went to the first of them, the second
\* was not asked
C11_Witness ==
    /\ lastCall.op # "none"
    /\ Cardinality(Accepting(lastCall.img)) >= 2
    /\ Len(lastCall.invoked) = 1
    /\ lastCall.invoked[1].provider = LowestAccepting(lastCall.img)
    /\ \E j \in Accepting(lastCall.img) : j > Len(lastCall.consulted)

\* the host of img, the part before the first "/", has the form
\* *.dkr.ecr.*.amazonaws.com
EcrHostPattern(img) ==
    LET host == SubSeq(img, 1, RunUntil(img, Slash)) IN
    \E i \in 2..Len(host), j \in 2..Len(host) :
        /\ j >= i + 6
        /\ SubSeq(host, i, i + 4) = <<Dot, "dkr", Dot, "ecr", Dot>>
        /\ SubSeq(host, j, Len(host)) = <<Dot, "amazonaws", Dot, "com">>

\* C12: on the built-in list, a reference whose host matches the ECR
\* pattern is dispatched to the ECR provider, also when the GCP or the
\* Docker Hub predicate accepts it.
C12_EcrHostGoesToEcr ==
    (OnBuiltinList /\ EcrHostPattern(lastCall.img)) =>
        /\ Len(lastCall.invoked) = 1
        /\ providers[lastCall.invoked[1].provider] = AWSName

\* an ECR host that another predicate accepts as well went to ECR
C12_Witness ==
    /\ OnBuiltinList
    /\ EcrHostPattern(lastCall.img)
    /\ GCPSupportsImage(lastCall.img) \/ DockerHubSupportsImage(lastCall.img)
    /\ Len(lastCall.invoked) = 1
    /\ providers[lastCall.invoked[1].provider] = AWSName

\* a name without "/": no part of it is a registry host
Bare(img) == img # EmptyStr /\ ~Contains(img, <<Slash>>)

\* C13: on the built-in list, every bare reference (no "/", no host) is
\* dispatched to Docker Hub, never to ECR or GCP and never to no provider.
C13_BareGoesToDockerHub ==
    (OnBuiltinList /\ Bare(lastCall.img)) =>
        /\ Len(lastCall.invoked) = 1
        /\ providers[lastCall.invoked[1].provider] = DockerHubName

\* C14: every reference the ECR provider's SupportsImage accepts is one
\* that parseECRImage parses.
C14_EcrAcceptsOnlyParsable ==
    (lastCall.op \in ListOps /\ AWSSupportsImage(lastCall.img)) =>
        parseECRImage(lastCall.img).err = "nil"

\* C15: in every state of the registry client, also after AddProvider
\* calls, Docker Hub is the last provider of the list.
C15_DockerHubLast == providers[Len(providers)] = DockerHubName

\* C16: a listing call (ListTags or ListTagsWithInfo) that no provider
\* accepts returns the error "no provider found" and a nil result, and
\* invokes the listing of no provider.
C16_NoProviderFound ==
    [][(lastCall' # lastCall /\ lastCall'.op \in ListOps
        /\ Accepting(lastCall'.img) = {}) =>
        /\ lastCall'.err = "no provider found for image"
        /\ lastCall'.value = "nil"
        /\ lastCall'.invoked = <<>>]_vars

\* a call for a reference of a registry no provider knows
C16_Witness ==
    /\ lastCall.op \in {"ListTags", "ListTagsWithInfo"}
    /\ lastCall.img = <<"quay", Dot, "io", Slash, "repo">>
    /\ Accepting(lastCall.img) = {}
    /\ lastCall.err = "no provider found for image"
    /\ lastCall.invoked = <<>>


----------------------------------------------------------------------------
(* Properties of the tag selection of the interactive mode *)

FetchFailures == TagFetchErrors \ {"nil"}

\* C17: in interactive mode a tag listing that ends in an error, a
\* classification miss or a listing failure, does not end the command: the
\* image is asked for by manual entry, and runInteractiveMode fails only
\* when the manual entry fails.
C17_FetchFailureFallsBack ==
    [][(tagFetch' # tagFetch /\ tagFetch' \in FetchFailures) =>
        IF image' = EmptyStr
        THEN pc' = "done" /\ result' = "failed to input image"
        ELSE pc' = "run" /\ result' = "pending"
             /\ image' \in SelectableImages \cup ClusterImages]_vars

\* no provider was found for the container's image, the image was entered
\* by hand and Complete returned nil: the command goes on to Run
C17_Witness ==
    /\ tagFetch = "no provider found for image"
    /\ interactive
    /\ image \in SelectableImages
    /\ pc = "run"
    /\ result = "pending"


----------------------------------------------------------------------------
(* Properties of the listing of a provider *)

Returned == listing.backend # "none" /\ listing.err = "nil"

NewestFirst(v) ==
    \A i \in 1..(Len(v) - 1) : v[i].CreatedAt >= v[i + 1].CreatedAt

Lexicographic(v) ==
    \A i \in 1..(Len(v) - 1) : ~LexLess(v[i + 1].Tag, v[i].Tag)

HasTimestamps(v) == \E i \in 1..Len(v) : v[i].CreatedAt # ZeroTime

\* C18: every tag list a provider's ListTagsWithInfo returns without error
\* has at most 20 entries; it is ordered newest first by creation time when
\* it carries timestamps, and by tag name when it carries none.
C18_AtMostTwentyNewestFirst ==
    Returned =>
        /\ Len(listing.value) <= TagLimit
        /\ IF HasTimestamps(listing.value)
           THEN NewestFirst(listing.value)
           ELSE Lexicographic(listing.value)

\* a repository of more than 20 tags, given oldest first with their
\* creation times, came back as the 20 newest, newest first
C18_Witness ==
    /\ Returned
    /\ listing.backend = DockerHubName
    /\ Len(listing.input.tags) > TagLimit
    /\ Len(listing.value) = TagLimit
    /\ HasTimestamps(listing.value)
    /\ listing.value[1].CreatedAt > listing.value[TagLimit].CreatedAt
    /\ listing.input.outcome[1].Created < listing.input.outcome[2].Created
    /\ \A i \in 1..Len(listing.input.outcome) :
        listing.input.outcome[i].ok /\ listing.input.outcome[i].Created > UnixEpoch


----------------------------------------------------------------------------
(* Properties of getTagsWithCreationTime *)

Min(a, b) == IF a < b THEN a ELSE b

\* the lookups that hold the semaphore: acquired, not yet released
Outstanding == CountAt("lookup") + CountAt("sent")

\* C19: under every interleaving of getTagsWithCreationTime, the number of
\* lookups that have acquired the semaphore and not yet released it is at
\* most min(10, number of listed tags).
C19_OutstandingAtMostTen ==
    Outstanding <= Min(MaxConcurrent, nTags)

\* more than ten tags: ten lookups hold the semaphore and another waits
C19_Witness ==
    /\ nTags > MaxConcurrent
    /\ Outstanding = MaxConcurrent
    /\ At("start") # {}

\* the values the goroutines have sent
Sent == CountAt("sent") + CountAt("exit")

\* C20: every dispatched lookup sends exactly one value, a result or an
\* error and not both; a goroutine that is to send is never blocked on
\* results or errors; the call returns only when it has collected as many
\* values as it dispatched lookups; and until it returns some step can be
\* taken, under every interleaving.
C20_FanOutFanIn ==
    /\ \A g \in BagToSet(pool) :
        IF g.pos \in {"sent", "exit"}
        THEN g.results + g.errors = 1
        ELSE g.results + g.errors = 0
    /\ Sent = results + errors + collected
    /\ At("lookup") # {} => (ENABLED LookupSucceeds /\ ENABLED LookupFails)
    /\ epc = "returned" =>
        /\ launched = TagsToProcess(nTags)
        /\ collected = launched
        /\ Sent = launched
        /\ results = 0 /\ errors = 0
    /\ epc # "returned" => ENABLED NextEnrich

\* more than ten tags, some lookups failed and some succeeded, and the
\* call returned the successful ones
C20_Witness ==
    /\ epc = "returned"
    /\ nTags > MaxConcurrent
    /\ collected = nTags
    /\ tagInfos > 0
    /\ tagInfos < collected
    /\ enrichErr = "nil"


----------------------------------------------------------------------------
(* Properties of a listing whose lookups fail, in part or all *)

\* the listing is one of a provider that looks the creation times up, and
\* remote.List gave it tags
Enriched ==
    /\ listing.backend \in {DockerHubName, GCPName}
    /\ listing.input.listOk
    /\ Len(listing.input.tags) > 0

\* the positions of the tags a lookup is made for
Attempted == 1..Len(listing.attempted)

\* the tags whose lookup succeeded, and those whose lookup failed
Succeeded == {listing.input.tags[i] : i \in {j \in Attempted : listing.input.outcome[j].ok}}
Failed == {listing.input.tags[i] : i \in {j \in Attempted : ~listing.input.outcome[j].ok}}

TagsIn(v) == {v[i].Tag : i \in 1..Len(v)}

\* C21: when the lookup of every tag fails, ListTagsWithInfo still returns
\* without error: the tags of the listing in lexicographic order, every
\* CreatedAt the zero time, cut to the first 20.
C21_AllFailLexicographic ==
    (Enriched /\ Succeeded = {}) =>
        /\ listing.err = "nil"
        /\ Len(listing.value) = Min(TagLimit, Len(listing.input.tags))
        /\ Lexicographic(listing.value)
        /\ \A i \in 1..Len(listing.value) :
            /\ listing.value[i].CreatedAt = ZeroTime
            /\ \E k \in 1..Len(listing.input.tags) :
                listing.input.tags[k] = listing.value[i].Tag
            /\ \A k \in 1..Len(listing.input.tags) :
                LexLess(listing.input.tags[k], listing.value[i].Tag) =>
                    \E j \in 1..(i - 1) : listing.value[j].Tag = listing.input.tags[k]

\* more than 20 tags, listed in descending order, and no lookup succeeded:
\* 20 tags came back, the first of them the least of the listing
C21_Witness ==
    /\ Enriched
    /\ Succeeded = {}
    /\ Failed # {}
    /\ Len(listing.input.tags) > TagLimit
    /\ LexLess(listing.input.tags[2], listing.input.tags[1])
    /\ listing.err = "nil"
    /\ Len(listing.value) = TagLimit
    /\ listing.value[1].Tag = <<1>>
    /\ listing.value[1].CreatedAt = ZeroTime

\* the creation time the lookup of tag reported
CreatedOf(tag) ==
    LET i == CHOOSE j \in Attempted : listing.input.tags[j] = tag
    IN listing.input.outcome[i].Created

\* C22: when some lookups fail and some succeed, ListTagsWithInfo returns
\* without error the tags whose lookup succeeded and none whose lookup
\* failed, each once, newest first, and at most 20 of them: the newest.
C22_PartialFailureKeepsSuccesses ==
    (Enriched /\ Succeeded # {} /\ Failed # {}) =>
        /\ listing.err = "nil"
        /\ TagsIn(listing.value) \subseteq Succeeded
        /\ TagsIn(listing.value) \cap Failed = {}
        /\ Len(listing.value) = Min(TagLimit, Cardinality(Succeeded))
        /\ Cardinality(TagsIn(listing.value)) = Len(listing.value)
        /\ NewestFirst(listing.value)
        /\ \A t \in Succeeded \ TagsIn(listing.value) :
            CreatedOf(t) <= listing.value[Len(listing.value)].CreatedAt

\* 22 tags of which the newest could not be looked up: the 20 newest of
\* the other 21 came back
C22_Witness ==
    /\ Enriched
    /\ Cardinality(Failed) = 1
    /\ Cardinality(Succeeded) > TagLimit
    /\ \A t \in Failed : \A u \in Succeeded : CreatedOf(t) > CreatedOf(u)
    /\ listing.err = "nil"
    /\ Len(listing.value) = TagLimit
    /\ TagsIn(listing.value) \cap Failed = {}

\* C23: a lookup is started for the first 50 tags of the listing and for
\* no other: for each of the first 50 once, in the order of the listing,
\* and for no tag at position 51 or later, whose creation time therefore
\* never shows in the result.
C23_FirstFiftyAttempted ==
    Enriched =>
        /\ Len(listing.attempted) = Min(EnrichLimit, Len(listing.input.tags))
        /\ \A i \in Attempted : listing.attempted[i] = listing.input.tags[i]
        /\ \A i \in 1..Len(listing.value) :
            listing.value[i].CreatedAt # ZeroTime =>
                \E k \in Attempted :
                    /\ listing.input.tags[k] = listing.value[i].Tag
                    /\ listing.input.outcome[k].ok

\* more than 50 tags, and only the lookups of the tags after the 50th
\* would succeed: 50 lookups were made, all failed, and the result carries
\* no creation time
C23_Witness ==
    /\ Enriched
    /\ Len(listing.input.tags) > EnrichLimit
    /\ Len(listing.attempted) = EnrichLimit
    /\ \A i \in 1..Len(listing.input.tags) : listing.input.outcome[i].ok <=> i > EnrichLimit
    /\ listing.err = "nil"
    /\ ~HasTimestamps(listing.value)

----------------------------------------------------------------------------
(* Properties of the order of a listing *)

\* the positions of the result whose tag's lookup reported no creation time
Unstamped == {p \in 1..Len(listing.value) : CreatedOf(listing.value[p].Tag) = ZeroTime}

\* the result is made of the records of successful lookups
FromLookups == Enriched /\ Succeeded # {} /\ listing.err = "nil"

\* a lookup that reported no creation time has its record in the result
\* with the time of the Unix epoch, unless the cut to 20 removed it
SentinelKept ==
    /\ \A p \in Unstamped : listing.value[p].CreatedAt = UnixEpoch
    /\ Cardinality(Succeeded) <= TagLimit =>
        \A t \in Succeeded : CreatedOf(t) = ZeroTime => t \in TagsIn(listing.value)

\* C24 as stated: a successful lookup without creation time yields a
\* record with the sentinel time, and in the result no record with a real
\* creation time comes after it.
C24_SentinelAfterEveryReal ==
    FromLookups =>
        /\ SentinelKept
        /\ \A p \in Unstamped : \A q \in (p + 1)..Len(listing.value) : q \in Unstamped

\* C24 amended: a successful lookup without creation time yields a record
\* with the sentinel time, the Unix epoch, and in the result no record
\* whose creation time is later than the Unix epoch comes after it.
C24_SentinelAfterEveryLater ==
    FromLookups =>
        /\ SentinelKept
        /\ \A p \in Unstamped : \A q \in (p + 1)..Len(listing.value) :
            ~(CreatedOf(listing.value[q].Tag) > UnixEpoch)

\* three tags or more, the last two without creation time: their records
\* came back with the Unix epoch, after all the others
C24_Witness ==
    /\ FromLookups
    /\ Failed = {}
    /\ Cardinality(Succeeded) \in 3..TagLimit
    /\ Cardinality(Unstamped) = 2
    /\ Unstamped = {Len(listing.value) - 1, Len(listing.value)}
    /\ \A p \in Unstamped : listing.value[p].CreatedAt = UnixEpoch
    /\ listing.value[1].CreatedAt > UnixEpoch

\* the tags in the order the backend's listing gives them
Encounter ==
    IF listing.backend = AWSName
    THEN LET infos == ECRTagInfos(DescribeImages(listing.input.pages, <<>>), 1, 1, 0,
                                  listing.input.clk)
         IN [i \in 1..Len(infos) |-> infos[i].Tag]
    ELSE listing.input.tags

EncounterIndex(tag) == CHOOSE i \in 1..Len(Encounter) : Encounter[i] = tag

\* C25: a returned list with timestamps is ordered newest first, and two
\* of its records with equal timestamps are in the order in which the
\* backend's listing gave their tags, whatever the order in which the
\* lookups ended.
C25_TiesInEncounterOrder ==
    (Returned /\ HasTimestamps(listing.value)) =>
        /\ NewestFirst(listing.value)
        /\ \A p \in 1..Len(listing.value) : \A q \in (p + 1)..Len(listing.value) :
            listing.value[p].CreatedAt = listing.value[q].CreatedAt =>
                EncounterIndex(listing.value[p].Tag) < EncounterIndex(listing.value[q].Tag)

----------------------------------------------------------------------------
(* Properties of the results of a listing *)

\* the backend was reached and its listing holds no tag
NoTags ==
    /\ listing.backend # "none"
    /\ listing.input.listOk
    /\ Len(Encounter) = 0

\* C26: a ListTagsWithInfo whose backend lists no tag returns an error and
\* a nil list; every ListTagsWithInfo returns either an error and a nil
\* list or no error and a list of at least one tag.
C26_NoTagsIsAnError ==
    listing.backend # "none" =>
        /\ NoTags => listing.err # "nil"
        /\ listing.err # "nil" => listing.value = "nil"
        /\ listing.err = "nil" => Len(listing.value) >= 1

\* remote.List answered an empty list without error, and ListTagsWithInfo
\* returned the error "no tags found"
C26_Witness ==
    /\ NoTags
    /\ listing.backend = GCPName
    /\ listing.err = "no tags found for image"
    /\ listing.value = "nil"

----------------------------------------------------------------------------
(* Properties of ListTags and of the provider list *)

\* what Client.ListTagsWithInfo returns for img on the present provider
\* list, when the registry answers answer
WithInfo(img, answer) ==
    LET found == findProvider(providers, img)
    IN IF found.provider = "nil" THEN NoProviderFound
       ELSE ProviderListTagsWithInfo(found.provider, img, answer)

\* the tag fields of a result, in its order
TagField(r) ==
    IF r.err # "nil" THEN [err |-> r.err, value |-> "nil"]
    ELSE [err |-> "nil", value |-> [i \in 1..Len(r.value) |-> r.value[i].Tag]]

C29_DispatchIsStateless ==
    [][lastCall' # lastCall =>
        /\ providers' = providers
        /\ lastCall'.op \in ListOps =>
            LET again == findProvider(providers', lastCall'.img)
            IN lastCall'.invoked =
                IF again.provider = "nil" THEN <<>>
                ELSE <<[provider |-> again.index, op |-> lastCall'.op]>>]_vars

\* a provider was added, and GetSupportedProviders reported the list as
\* AddProvider left it
C29_Witness ==
    /\ lastCall.op = "GetSupportedProviders"
    /\ lastCall.value = Append(NewClient, CustomQuay)
    /\ providers = Append(NewClient, CustomQuay)

\* C28: the ECR provider holds at most 100 image details when its paging
\* ends, whatever the sizes of the pages (each of at most 100 details).
C28_AtMostHundredDetails ==
    listing.backend = AWSName =>
        /\ \A i \in 1..Len(listing.input.pages) : Len(listing.input.pages[i]) <= MaxResults
        /\ listing.held <= ECRLimit

----------------------------------------------------------------------------
(* Properties of the rollback without a previous image *)

\* WatchDeployment returned an error
WatchFailed == watchErr \notin {"none", "nil"}

\* C30: while the recorded previous image is empty no confirmation is
\* asked and no patch other than the forward one is issued; a run whose
\* watch failed then ends with the error "no previous image saved for
\* rollback".
C30_NoRollbackWithoutPreviousImage ==
    previousImage = EmptyStr =>
        /\ pc \notin {"confirm", "rollback"}
        /\ ConfirmCalls = {}
        /\ Cardinality(PatchCalls) <= 1
        /\ (pc = "done" /\ WatchFailed) =>
            /\ result = "no previous image saved for rollback"
            /\ Len(calls) = 2

\* the container had no image, the forward patch succeeded and the watch
\* failed: the command ended with the error, after its read and its one
\* patch
C30_Witness ==
    /\ pc = "done"
    /\ WatchFailed
    /\ previousImage = EmptyStr
    /\ result = "no previous image saved for rollback"
    /\ Len(calls) = 2
    /\ calls[1].op = "get" /\ calls[1].ok
    /\ calls[2].op = "patch" /\ calls[2].ok
    /\ ShowsConfirmation

----------------------------------------------------------------------------
(* Properties of the fallback and of the timestamps of a result *)

AllTags == {listing.input.tags[i] : i \in 1..Len(listing.input.tags)}

\* the tags of the listing with fewer than 20 tags before them in
\* lexicographic order
SmallestTags ==
    {t \in AllTags : Cardinality({u \in AllTags : LexLess(u, t)}) < TagLimit}

\* the tags no lookup was started for
Unattempted ==
    {listing.input.tags[i] : i \in (Len(listing.attempted) + 1)..Len(listing.input.tags)}

\* C38: when no lookup succeeds, the result is made of the 20 (or fewer)
\* lexicographically smallest tags of the whole listing, in that order,
\* whether or not a lookup was started for them.
C38_FallbackOverWholeListing ==
    (Enriched /\ Succeeded = {}) =>
        /\ listing.err = "nil"
        /\ TagsIn(listing.value) = SmallestTags
        /\ Len(listing.value) = Cardinality(SmallestTags)
        /\ Lexicographic(listing.value)

\* more than 50 tags, listed in descending order, no lookup succeeded: the
\* first tag of the result is one no lookup was started for
C38_Witness ==
    /\ Enriched
    /\ Succeeded = {}
    /\ Len(listing.input.tags) > EnrichLimit
    /\ listing.err = "nil"
    /\ Len(listing.value) = TagLimit
    /\ listing.value[1].Tag \in Unattempted
    /\ TagsIn(listing.value) \ Unattempted # {}

\* C39: the records of a returned list either all have the zero time,
\* which a provider returns only when it looks creation times up and no
\* lookup it started succeeded, or all have a time, real or the Unix epoch.
C39_NoMixedTimestamps ==
    Returned =>
        \/ /\ \A i \in 1..Len(listing.value) : listing.value[i].CreatedAt = ZeroTime
           /\ Enriched
           /\ Succeeded = {}
        \/ /\ \A i \in 1..Len(listing.value) : listing.value[i].CreatedAt # ZeroTime
           /\ Enriched => Succeeded # {}

\* some lookups failed, one succeeded without creation time and others
\* with one: every record of the result has a time
C39_Witness ==
    /\ Returned
    /\ Enriched
    /\ Failed # {}
    /\ \E t \in Succeeded : CreatedOf(t) = ZeroTime
    /\ \E t \in Succeeded : CreatedOf(t) > UnixEpoch
    /\ \A i \in 1..Len(listing.value) : listing.value[i].CreatedAt # ZeroTime

----------------------------------------------------------------------------
(* Properties of the patches of one invocation *)

\* the rollback patches: the patches issued after the forward one
RollbackCalls == {i \in PatchCalls : i > 2}

\* C32: one invocation issues at most two image patches: the forward patch,
\* to the new image, and after it at most one rollback patch, to the
\* previous image; a rollback patch is issued only after the forward patch
\* succeeded, in watch mode, once the watch has ended with an error; when
\* the forward patch fails the command ends with its error, no watch having
\* been started and no other call issued.
C32_ForwardThenAtMostOneRollback ==
    /\ Cardinality(PatchCalls) <= 2
    /\ PatchCalls # {} =>
          /\ 2 \in PatchCalls
          /\ calls[2].image = image
          /\ \A i \in PatchCalls : i >= 2
    /\ Cardinality(RollbackCalls) <= 1
    /\ \A i \in RollbackCalls :
          /\ i = Len(calls)
          /\ calls[i].image = previousImage
          /\ calls[2].op = "patch" /\ calls[2].ok
          /\ watchMode
          /\ wpc = "idle"
          /\ WatchFailed
    /\ (Len(calls) >= 2 /\ calls[2].op = "patch" /\ ~calls[2].ok) =>
          /\ pc = "done"
          /\ result = "failed to patch deployment"
          /\ Len(calls) = 2
          /\ wpc = "idle"
          /\ watchErr = "none"
          /\ checks = 0

C32_Witness ==
    /\ Cardinality(PatchCalls) = 2
    /\ RollbackCalls # {}
    /\ calls[2].image # previousImage
    /\ watchErr = "pod failed"

----------------------------------------------------------------------------
(* Properties of the value the command returns after a watch *)

\* the run has ended after a rollback patch that succeeded
RolledBack ==
    /\ pc = "done"
    /\ RollbackCalls # {}
    /\ calls[Len(calls)].op = "patch"
    /\ calls[Len(calls)].ok

\* C33: a run whose watch failed and whose rollback patch succeeded returns
\* nil, the value a run returns whose watch found the deployment ready; the
\* error of the watch is never the value the command returns.
C33_RolledBackReturnsNil ==
    /\ (RolledBack /\ WatchFailed) => result = "nil"
    /\ (pc = "done" /\ watchErr = "nil") => result = "nil"
    /\ (pc = "done" /\ WatchFailed) => result # watchErr

C33_Witness ==
    /\ RolledBack
    /\ watchErr = "has problem"
    /\ result = "nil"
    /\ ImageInCluster = previousImage

----------------------------------------------------------------------------
(* Properties of a readiness check that returns an error *)

\* the errors of the two API calls of a readiness check
CallErrors == {"get deployment", "list pods"}

\* the errors a readiness check returns
PollErrors == CallErrors \cup CheckFailures

\* rollbackDeployment has been entered
OnRollbackPath ==
    \/ pc \in {"confirm", "rollback"}
    \/ pc = "done" /\ result = "no previous image saved for rollback"

\* C34: when a readiness check returns an error, be it the error of the
\* call that gets the deployment or of the call that lists the pods,
\* WatchDeployment returns that error at once; no readiness check is
\* started after it, and the command goes on with rollbackDeployment.
C34_PollErrorEndsWatch ==
    [][/\ (wpc = "checking" /\ wpc' # "checking" /\ lastCheck'.err # "nil") =>
            /\ wpc' = "returned"
            /\ lastCheck'.err \in PollErrors
            /\ watchErr' = lastCheck'.err
       /\ watchErr \in PollErrors =>
            /\ checks' = checks
            /\ wpc' # "checking"
            /\ watchErr' = watchErr
       /\ (pc = "watching" /\ pc' # "watching" /\ watchErr \in PollErrors) =>
            OnRollbackPath']_vars

C34_Witness ==
    /\ watchErr = "list pods"
    /\ checks = 2
    /\ pc = "rollback"

----------------------------------------------------------------------------
(* Properties of the first tick of a watch *)

\* C35: a readiness check is started only once a whole poll interval has
\* passed since WatchDeployment created its timers, never on entry; with a
\* timeout shorter than the poll interval no readiness check is started
\* at all, whatever the state of the deployment, and the watch ends only
\* with the timeout error.
C35_FirstCheckAfterOneInterval ==
    /\ checks >= 1 => clock >= TickInterval
    /\ wpc = "checking" => clock >= TickInterval
    /\ clock < TickInterval => (lastObs.none /\ lastCheck = NoCheck)
    /\ watchTimeout < TickInterval =>
          /\ checks = 0
          /\ lastObs.none
          /\ wpc \in {"select", "returned"}
          /\ clock <= watchTimeout
          /\ wpc = "returned" => watchErr = "timeout"

C35_Witness ==
    /\ watchTimeout < TickInterval
    /\ wpc = "returned"
    /\ watchErr = "timeout"
    /\ clock = watchTimeout
    /\ checks = 0

----------------------------------------------------------------------------
(* Properties of a readiness check on a deployment whose counts are met *)

\* the last check read a deployment whose replica counts are met
PolledReady ==
    /\ ~lastObs.none
    /\ lastObs.getOk
    /\ lastObs.ReadyReplicas = lastObs.Replicas
    /\ lastObs.UpdatedReplicas = lastObs.Replicas

\* C36: a readiness check that reads a deployment whose ready and updated
\* replicas both equal the desired replicas reports ready without asking
\* for the pods: a failed pod, a container restarted more than 3 times or
\* waiting with a bad reason at that moment gives no error, nor does a
\* pod listing that would fail, and the watch ends with nil.
C36_ReadinessBeforeFailureSignals ==
    PolledReady =>
        /\ lastCheck = [ready |-> TRUE, err |-> "nil", listed |-> FALSE]
        /\ wpc = "returned"
        /\ watchErr = "nil"

C36_Witness ==
    /\ PolledReady
    /\ lastObs.listOk
    /\ Len(lastObs.pods) = MaxPods
    /\ lastObs.pods[MaxPods].Phase = "Failed"
    /\ lastCheck.ready
    /\ watchErr = "nil"

----------------------------------------------------------------------------
(* Properties of the rollback on a deployment that others patch too *)

\* the last call of the command
LastCall == calls[Len(calls)]

\* C31: the image a rollback writes is the one savePreviousImage read, as
\* the first call of RunWithPatch, right before the forward patch: the
\* read records the image the container has at that moment, nothing alters
\* the record afterwards, and the rollback patch carries it whatever
\* another client wrote before the read (so that the image shown in the
\* interactive selection differs), between the read and the forward patch,
\* or during the watch; a rollback patch that succeeds leaves the recorded
\* image in the cluster, in place of the other client's.
C31_RollbackToRecordedImage ==
    [][/\ (pc = "run" /\ pc' = "update") =>
            /\ previousImage' = ImageInCluster
            /\ calls' = <<Call("get", ImageInCluster, TRUE, "")>>
       /\ pc \in {"update", "watching", "confirm", "rollback"} =>
            previousImage' = previousImage
       /\ (pc = "update" /\ pc' # "update") =>
            /\ Len(calls') = 2
            /\ calls'[1] = calls[1]
            /\ LastCall'.op = "patch"
       /\ (pc = "rollback" /\ pc' # "rollback") =>
            /\ LastCall'.op = "patch"
            /\ LastCall'.image = calls[1].image
            /\ LastCall'.image = previousImage
            /\ LastCall'.ok => ImageInCluster' = calls[1].image]_vars

C31_Witness ==
    /\ pc = "done"
    /\ others = SharedPositions
    /\ interactive
    /\ shownImage # previousImage
    /\ shownImage # EmptyStr
    /\ \E i \in ConfirmCalls : calls[i].ok
    /\ LastCall.op = "patch" /\ LastCall.ok
    /\ LastCall.image = previousImage
    /\ LastCall.image # image
    /\ ImageInCluster = previousImage

----------------------------------------------------------------------------
(* Termination *)

\* the values RunWithPatch returns: nil (without watch, after a ready
\* watch, after a rollback), the error of the read or of the forward
\* patch, and the errors of rollbackDeployment
RunOutcomes ==
    {"nil", "failed to get deployment", "container not found",
     "failed to patch deployment", "no previous image saved for rollback",
     "rollback cancelled", "failed to rollback deployment"}

\* C37: when every call of the API server returns and the operator answers
\* the confirmation, a run of RunWithPatch ends with one of its values,
\* and a watch that has been entered returns: it does not poll for ever,
\* the timeout case being taken once the timeout has passed.
C37_RunTerminates ==
    /\ (pc = "run" /\ ~listOnly) ~> (pc = "done" /\ result \in RunOutcomes)
    /\ (pc = "watching") ~> (wpc = "returned")

C37_Witness ==
    /\ pc = "done"
    /\ result = "nil"
    /\ watchErr = "timeout"
    /\ checks = MaxChecks
    /\ checksAfterTimeout >= 2
    /\ RolledBack

====
